---- MODULE Spec2Model ----
(***************************************************************************)
(* 3D chess on an 8x8x8 lattice: the rules engine of src/lib/gameLogic.ts  *)
(* (initial layout, attack detection, move generation) and the game        *)
(* session of src/App.tsx (selection, move application, promotion).        *)
(***************************************************************************)
EXTENDS Integers, Sequences, FiniteSets, TLC

VARIABLES
    boardState,      \* App.tsx:12  cell -> piece or NULL
    turn,            \* App.tsx:13  "white" | "black"
    selectedPiece,   \* App.tsx:14  piece or NULL
    validMoves,      \* App.tsx:15  moves of the selected piece
    capturedPieces,  \* App.tsx:16  [white: Seq(piece), black: Seq(piece)]
    gameStatus,      \* App.tsx:17  "active" | "WHITE WINS!" | "BLACK WINS!"
    promotionData,   \* App.tsx:19  [piece, x, y, z] or NULL
    lastEvent,       \* history: the handler that ran last and what it did
    moveCount,       \* history: the number of committed moves
    generated,       \* analysis: occupied cell -> calculateValidMoves of its piece
    attacked         \* analysis: color -> the cells isSquareAttacked by that color

vars == <<boardState, turn, selectedPiece, validMoves, capturedPieces,
          gameStatus, promotionData, lastEvent, moveCount, generated, attacked>>

\* The program state proper (everything but the history variable).
appState == <<boardState, turn, selectedPiece, validMoves, capturedPieces,
              gameStatus, promotionData>>

-----------------------------------------------------------------------------
(* Types (src/unnamed/part_000)                                            *)

SIZE == 8

NULL == [type |-> "null"]

Coords == 0..(SIZE - 1)

Cells == Coords \X Coords \X Coords

Colors == {"white", "black"}

PieceTypes == {"P", "N", "B", "R", "Q", "K"}

PIECE_VALUES == [P |-> 1, N |-> 3, B |-> 3, R |-> 5, Q |-> 9, K |-> 0]

Abs(n) == IF n < 0 THEN -n ELSE n

\* color === 'white' ? 'black' : 'white'
Opponent(color) == IF color = "white" THEN "black" ELSE "white"

\* The cell a piece record says it stands on.
CellOf(piece) == <<piece.x, piece.y, piece.z>>

MkPiece(type, color, x, y, z, hasMoved) ==
    [type |-> type, color |-> color, x |-> x, y |-> y, z |-> z, hasMoved |-> hasMoved]

MkMove(x, y, z, capture, castle) ==
    [x |-> x, y |-> y, z |-> z, capture |-> capture, castle |-> castle]

-----------------------------------------------------------------------------
(* initializeBoardState (src/lib/gameLogic.ts:5-53)                        *)

\* Rows are indexed by y (1-based here), characters by x (1-based here).
MAJOR_PIECE_PATTERN ==
    << <<"R","N","B","R","R","B","N","R">>,
       <<"N","N","B","N","N","B","N","N">>,
       <<"B","B","B","Q","Q","B","B","B">>,
       <<"R","N","Q","Q","K","Q","N","R">>,
       <<"R","N","Q","Q","Q","Q","N","R">>,
       <<"B","B","B","Q","Q","B","B","B">>,
       <<"N","N","B","N","N","B","N","N">>,
       <<"R","N","B","R","R","B","N","R">> >>

PAWN_ROW == <<"P","P","P","P","P","P","P","P">>

LayerPattern(z) ==
    IF z = 0 THEN MAJOR_PIECE_PATTERN
    ELSE IF z = 1 THEN [y \in 1..SIZE |-> PAWN_ROW]
    ELSE IF z = 6 THEN [y \in 1..SIZE |-> PAWN_ROW]
    ELSE IF z = 7 THEN MAJOR_PIECE_PATTERN
    ELSE <<>>

\* Mutant: only layer 0 is White.
initializeBoardState_oneWhiteLayer ==
    [c \in Cells |->
        IF LayerPattern(c[3]) = <<>> THEN NULL
        ELSE MkPiece(LayerPattern(c[3])[c[2] + 1][c[1] + 1],
                     IF c[3] < 1 THEN "white" ELSE "black",
                     c[1], c[2], c[3], FALSE)]

initializeBoardState ==
    [c \in Cells |->
        IF LayerPattern(c[3]) = <<>> THEN NULL
        ELSE MkPiece(LayerPattern(c[3])[c[2] + 1][c[1] + 1],
                     IF c[3] < 2 THEN "white" ELSE "black",
                     c[1], c[2], c[3], FALSE)]

-----------------------------------------------------------------------------
(* isWithinBounds (src/lib/gameLogic.ts:55-57)                             *)

isWithinBounds(x, y, z) ==
    x >= 0 /\ x < SIZE /\ y >= 0 /\ y < SIZE /\ z >= 0 /\ z < SIZE

-----------------------------------------------------------------------------
(* isSquareAttacked (src/lib/gameLogic.ts:59-135)                          *)

\* gameLogic.ts:64-70  the 8 horizontal offsets
pawnCaptureDirections == {d \in (-1..1) \X (-1..1) : d # <<0, 0>>}

\* gameLogic.ts:84-91
knightMoves ==
    { <<2, 1, 0>>, <<2, -1, 0>>, <<-2, 1, 0>>, <<-2, -1, 0>>,
      <<1, 2, 0>>, <<1, -2, 0>>, <<-1, 2, 0>>, <<-1, -2, 0>>,
      <<2, 0, 1>>, <<2, 0, -1>>, <<-2, 0, 1>>, <<-2, 0, -1>>,
      <<1, 0, 2>>, <<1, 0, -2>>, <<-1, 0, 2>>, <<-1, 0, -2>>,
      <<0, 2, 1>>, <<0, 2, -1>>, <<0, -2, 1>>, <<0, -2, -1>>,
      <<0, 1, 2>>, <<0, 1, -2>>, <<0, -1, 2>>, <<0, -1, -2>> }

\* gameLogic.ts:103-111 and 214-222
all3DDirections == {d \in (-1..1) \X (-1..1) \X (-1..1) : d # <<0, 0, 0>>}

isOrthogonal(d) == Abs(d[1]) + Abs(d[2]) + Abs(d[3]) = 1

isDiagonal(d) == Abs(d[1]) + Abs(d[2]) + Abs(d[3]) > 1

\* gameLogic.ts:71-81
PawnAttacks(x, y, z, attackerColor, board) ==
    LET zDir == IF attackerColor = "white" THEN 1 ELSE -1
    IN \E d \in pawnCaptureDirections :
          /\ isWithinBounds(x - d[1], y - d[2], z - zDir)
          /\ LET piece == board[<<x - d[1], y - d[2], z - zDir>>]
             IN piece # NULL /\ piece.type = "P" /\ piece.color = attackerColor

\* gameLogic.ts:92-100
KnightAttacks(x, y, z, attackerColor, board) ==
    \E d \in knightMoves :
        /\ isWithinBounds(x - d[1], y - d[2], z - d[3])
        /\ LET piece == board[<<x - d[1], y - d[2], z - d[3]>>]
           IN piece # NULL /\ piece.type = "N" /\ piece.color = attackerColor

\* Mutant: the king's k = 1 limit is dropped.
RECURSIVE RayAttacks_kingAnyDistance(_, _, _, _, _, _, _)
RayAttacks_kingAnyDistance(x, y, z, d, k, attackerColor, board) ==
    IF ~(k < SIZE) THEN FALSE
    ELSE IF ~isWithinBounds(x + d[1] * k, y + d[2] * k, z + d[3] * k) THEN FALSE
    ELSE LET piece == board[<<x + d[1] * k, y + d[2] * k, z + d[3] * k>>]
         IN IF piece # NULL
            THEN /\ piece.color = attackerColor
                 /\ \/ piece.type = "Q"
                    \/ piece.type = "R" /\ isOrthogonal(d)
                    \/ piece.type = "B" /\ isDiagonal(d)
                    \/ piece.type = "K"
            ELSE RayAttacks_kingAnyDistance(x, y, z, d, k + 1, attackerColor, board)

\* gameLogic.ts:114-131  one ray, from step k on
RECURSIVE RayAttacks(_, _, _, _, _, _, _)
RayAttacks(x, y, z, d, k, attackerColor, board) ==
    IF ~(k < SIZE) THEN FALSE
    ELSE IF ~isWithinBounds(x + d[1] * k, y + d[2] * k, z + d[3] * k) THEN FALSE
    ELSE LET piece == board[<<x + d[1] * k, y + d[2] * k, z + d[3] * k>>]
         IN IF piece # NULL
            THEN /\ piece.color = attackerColor
                 /\ \/ piece.type = "Q"
                    \/ piece.type = "R" /\ isOrthogonal(d)
                    \/ piece.type = "B" /\ isDiagonal(d)
                    \/ piece.type = "K" /\ k = 1
            ELSE RayAttacks(x, y, z, d, k + 1, attackerColor, board)

isSquareAttacked(x, y, z, attackerColor, board) ==
    \/ PawnAttacks(x, y, z, attackerColor, board)
    \/ KnightAttacks(x, y, z, attackerColor, board)
    \/ \E d \in all3DDirections : RayAttacks(x, y, z, d, 1, attackerColor, board)

-----------------------------------------------------------------------------
(* findKing, isKingInCheck (src/lib/gameLogic.ts:137-156)                  *)

\* The scan is x-major, then y, then z; the first king found is returned.
CellIndex(c) == (c[1] * SIZE + c[2]) * SIZE + c[3]

findKing(kingColor, board) ==
    LET kings == {c \in Cells : /\ board[c] # NULL
                                /\ board[c].type = "K"
                                /\ board[c].color = kingColor}
    IN IF kings = {} THEN NULL
       ELSE board[CHOOSE c \in kings : \A e \in kings : CellIndex(c) <= CellIndex(e)]

isKingInCheck(kingColor, board) ==
    LET king == findKing(kingColor, board)
    IN IF king = NULL THEN FALSE
       ELSE isSquareAttacked(king.x, king.y, king.z, Opponent(kingColor), board)

-----------------------------------------------------------------------------
(* calculateValidMoves (src/lib/gameLogic.ts:158-282)                      *)
(* The list is modelled as a set: no two generated moves share a           *)
(* destination, and the only consumer (find) looks a destination up.       *)

\* Mutant: the two-step move starts one layer further on.
PawnMoves_startLayerAhead(piece, board) ==
    LET startX == piece.x
        startY == piece.y
        startZ == piece.z
        color  == piece.color
        zDir   == IF color = "white" THEN 1 ELSE -1
        moveZ  == startZ + zDir
        startLayer  == IF color = "white" THEN 2 ELSE 5
        doubleMoveZ == startZ + zDir * 2
        forward ==
            IF isWithinBounds(startX, startY, moveZ) /\ board[<<startX, startY, moveZ>>] = NULL
            THEN {MkMove(startX, startY, moveZ, FALSE, "none")} \cup
                 (IF /\ startZ = startLayer
                     /\ isWithinBounds(startX, startY, doubleMoveZ)
                     /\ board[<<startX, startY, doubleMoveZ>>] = NULL
                     /\ board[<<startX, startY, moveZ>>] = NULL
                  THEN {MkMove(startX, startY, doubleMoveZ, FALSE, "none")}
                  ELSE {})
            ELSE {}
        captures ==
            {MkMove(startX + d[1], startY + d[2], startZ + zDir, TRUE, "none") :
                d \in {e \in pawnCaptureDirections :
                          /\ isWithinBounds(startX + e[1], startY + e[2], startZ + zDir)
                          /\ LET targetPiece == board[<<startX + e[1], startY + e[2], startZ + zDir>>]
                             IN targetPiece # NULL /\ targetPiece.color # color}}
    IN forward \cup captures

\* Mutant: the two-step move is not tied to the starting layer.
PawnMoves_doubleAnywhere(piece, board) ==
    LET startX == piece.x
        startY == piece.y
        startZ == piece.z
        color  == piece.color
        zDir   == IF color = "white" THEN 1 ELSE -1
        moveZ  == startZ + zDir
        startLayer  == IF color = "white" THEN 1 ELSE 6
        doubleMoveZ == startZ + zDir * 2
        forward ==
            IF isWithinBounds(startX, startY, moveZ) /\ board[<<startX, startY, moveZ>>] = NULL
            THEN {MkMove(startX, startY, moveZ, FALSE, "none")} \cup
                 (IF /\ isWithinBounds(startX, startY, doubleMoveZ)
                     /\ board[<<startX, startY, doubleMoveZ>>] = NULL
                     /\ board[<<startX, startY, moveZ>>] = NULL
                  THEN {MkMove(startX, startY, doubleMoveZ, FALSE, "none")}
                  ELSE {})
            ELSE {}
        captures ==
            {MkMove(startX + d[1], startY + d[2], startZ + zDir, TRUE, "none") :
                d \in {e \in pawnCaptureDirections :
                          /\ isWithinBounds(startX + e[1], startY + e[2], startZ + zDir)
                          /\ LET targetPiece == board[<<startX + e[1], startY + e[2], startZ + zDir>>]
                             IN targetPiece # NULL /\ targetPiece.color # color}}
    IN forward \cup captures

\* gameLogic.ts:162-193
PawnMoves(piece, board) ==
    LET startX == piece.x
        startY == piece.y
        startZ == piece.z
        color  == piece.color
        zDir   == IF color = "white" THEN 1 ELSE -1
        moveZ  == startZ + zDir
        startLayer  == IF color = "white" THEN 1 ELSE 6
        doubleMoveZ == startZ + zDir * 2
        forward ==
            IF isWithinBounds(startX, startY, moveZ) /\ board[<<startX, startY, moveZ>>] = NULL
            THEN {MkMove(startX, startY, moveZ, FALSE, "none")} \cup
                 (IF /\ startZ = startLayer
                     /\ isWithinBounds(startX, startY, doubleMoveZ)
                     /\ board[<<startX, startY, doubleMoveZ>>] = NULL
                     /\ board[<<startX, startY, moveZ>>] = NULL
                  THEN {MkMove(startX, startY, doubleMoveZ, FALSE, "none")}
                  ELSE {})
            ELSE {}
        captures ==
            {MkMove(startX + d[1], startY + d[2], startZ + zDir, TRUE, "none") :
                d \in {e \in pawnCaptureDirections :
                          /\ isWithinBounds(startX + e[1], startY + e[2], startZ + zDir)
                          /\ LET targetPiece == board[<<startX + e[1], startY + e[2], startZ + zDir>>]
                             IN targetPiece # NULL /\ targetPiece.color # color}}
    IN forward \cup captures

\* Mutant: the last offset repeats the one before it.
permutations_typo ==
    { <<2, 1, 0>>, <<2, -1, 0>>, <<-2, 1, 0>>, <<-2, -1, 0>>,
      <<1, 2, 0>>, <<1, -2, 0>>, <<-1, 2, 0>>, <<-1, -2, 0>>,
      <<2, 0, 1>>, <<2, 0, -1>>, <<-2, 0, 1>>, <<-2, 0, -1>>,
      <<1, 0, 2>>, <<1, 0, -2>>, <<-1, 0, 2>>, <<-1, 0, -2>>,
      <<0, 2, 1>>, <<0, 2, -1>>, <<0, -2, 1>>, <<0, -2, -1>>,
      <<0, 1, 2>>, <<0, 1, -2>>, <<0, -1, 2>>, <<0, -1, 2>> }

\* gameLogic.ts:195-202
permutations ==
    { <<2, 1, 0>>, <<2, -1, 0>>, <<-2, 1, 0>>, <<-2, -1, 0>>,
      <<1, 2, 0>>, <<1, -2, 0>>, <<-1, 2, 0>>, <<-1, -2, 0>>,
      <<2, 0, 1>>, <<2, 0, -1>>, <<-2, 0, 1>>, <<-2, 0, -1>>,
      <<1, 0, 2>>, <<1, 0, -2>>, <<-1, 0, 2>>, <<-1, 0, -2>>,
      <<0, 2, 1>>, <<0, 2, -1>>, <<0, -2, 1>>, <<0, -2, -1>>,
      <<0, 1, 2>>, <<0, 1, -2>>, <<0, -1, 2>>, <<0, -1, -2>> }

\* Mutant: a Knight's move onto an enemy piece is not flagged as a capture.
KnightMoves_captureUnflagged(piece, board) ==
    {MkMove(piece.x + d[1], piece.y + d[2], piece.z + d[3], FALSE, "none") :
        d \in {e \in permutations :
                  /\ isWithinBounds(piece.x + e[1], piece.y + e[2], piece.z + e[3])
                  /\ LET targetPiece == board[<<piece.x + e[1], piece.y + e[2], piece.z + e[3]>>]
                     IN targetPiece = NULL \/ targetPiece.color # piece.color}}

\* gameLogic.ts:204-212
KnightMoves(piece, board) ==
    {MkMove(piece.x + d[1], piece.y + d[2], piece.z + d[3],
            board[<<piece.x + d[1], piece.y + d[2], piece.z + d[3]>>] # NULL, "none") :
        d \in {e \in permutations :
                  /\ isWithinBounds(piece.x + e[1], piece.y + e[2], piece.z + e[3])
                  /\ LET targetPiece == board[<<piece.x + e[1], piece.y + e[2], piece.z + e[3]>>]
                     IN targetPiece = NULL \/ targetPiece.color # piece.color}}

\* Mutant: a Bishop moves on the diagonals of a plane only.
rayDirections_planarBishop(type) ==
    (IF type \in {"R", "Q", "K"} THEN {d \in all3DDirections : isOrthogonal(d)} ELSE {})
    \cup
    (IF type \in {"Q", "K"} THEN {d \in all3DDirections : isDiagonal(d)} ELSE {})
    \cup
    (IF type = "B"
     THEN {d \in all3DDirections : Abs(d[1]) + Abs(d[2]) + Abs(d[3]) = 2} ELSE {})

\* gameLogic.ts:224-233
rayDirections(type) ==
    (IF type \in {"R", "Q", "K"} THEN {d \in all3DDirections : isOrthogonal(d)} ELSE {})
    \cup
    (IF type \in {"B", "Q", "K"} THEN {d \in all3DDirections : isDiagonal(d)} ELSE {})

\* gameLogic.ts:235
maxDistance(type) == IF type = "K" THEN 1 ELSE SIZE

\* Mutant: the occupant's color is not compared, so an own piece is captured.
RECURSIVE RayMoves_ownCapture(_, _, _, _)
RayMoves_ownCapture(piece, d, k, board) ==
    IF ~(k <= maxDistance(piece.type)) THEN {}
    ELSE IF ~isWithinBounds(piece.x + d[1] * k, piece.y + d[2] * k, piece.z + d[3] * k) THEN {}
    ELSE LET tx == piece.x + d[1] * k
             ty == piece.y + d[2] * k
             tz == piece.z + d[3] * k
             targetPiece == board[<<tx, ty, tz>>]
         IN IF targetPiece # NULL
            THEN {MkMove(tx, ty, tz, TRUE, "none")}
            ELSE {MkMove(tx, ty, tz, FALSE, "none")}
                     \cup RayMoves_ownCapture(piece, d, k + 1, board)

\* Mutant: the ray does not stop at a captured piece.
RECURSIVE RayMoves_jump(_, _, _, _)
RayMoves_jump(piece, d, k, board) ==
    IF ~(k <= maxDistance(piece.type)) THEN {}
    ELSE IF ~isWithinBounds(piece.x + d[1] * k, piece.y + d[2] * k, piece.z + d[3] * k) THEN {}
    ELSE LET tx == piece.x + d[1] * k
             ty == piece.y + d[2] * k
             tz == piece.z + d[3] * k
             targetPiece == board[<<tx, ty, tz>>]
         IN IF targetPiece # NULL
            THEN IF targetPiece.color # piece.color
                 THEN {MkMove(tx, ty, tz, TRUE, "none")}
                          \cup RayMoves_jump(piece, d, k + 1, board)
                 ELSE {}
            ELSE {MkMove(tx, ty, tz, FALSE, "none")} \cup RayMoves_jump(piece, d, k + 1, board)

\* gameLogic.ts:238-250  one ray, from step k on
RECURSIVE RayMoves(_, _, _, _)
RayMoves(piece, d, k, board) ==
    IF ~(k <= maxDistance(piece.type)) THEN {}
    ELSE IF ~isWithinBounds(piece.x + d[1] * k, piece.y + d[2] * k, piece.z + d[3] * k) THEN {}
    ELSE LET tx == piece.x + d[1] * k
             ty == piece.y + d[2] * k
             tz == piece.z + d[3] * k
             targetPiece == board[<<tx, ty, tz>>]
         IN IF targetPiece # NULL
            THEN (IF targetPiece.color # piece.color
                  THEN {MkMove(tx, ty, tz, TRUE, "none")}
                  ELSE {})
            ELSE {MkMove(tx, ty, tz, FALSE, "none")} \cup RayMoves(piece, d, k + 1, board)

\* gameLogic.ts:237-251
SlidingMoves(piece, board) ==
    UNION {RayMoves(piece, d, 1, board) : d \in rayDirections(piece.type)}

\* Mutant: a king in check may castle.
CastleMoves_inCheck(piece, board) ==
    IF piece.type = "K" /\ ~piece.hasMoved
    THEN LET color  == piece.color
             startX == piece.x
             startY == piece.y
             startZ == piece.z
             opponentColor == Opponent(color)
             kingY == 3
             kingZ == IF color = "white" THEN 0 ELSE 7
             kingsideRook  == board[<<7, startY, startZ>>]
             queensideRook == board[<<0, startY, startZ>>]
         IN IF startY = kingY /\ startZ = kingZ
            THEN (IF /\ kingsideRook # NULL
                     /\ kingsideRook.type = "R"
                     /\ ~kingsideRook.hasMoved
                     /\ kingsideRook.color = color
                     /\ board[<<5, startY, startZ>>] = NULL
                     /\ board[<<6, startY, startZ>>] = NULL
                     /\ ~isSquareAttacked(5, startY, startZ, opponentColor, board)
                     /\ ~isSquareAttacked(6, startY, startZ, opponentColor, board)
                  THEN {MkMove(startX + 2, startY, startZ, FALSE, "king")}
                  ELSE {})
                 \cup
                 (IF /\ queensideRook # NULL
                     /\ queensideRook.type = "R"
                     /\ ~queensideRook.hasMoved
                     /\ queensideRook.color = color
                     /\ board[<<1, startY, startZ>>] = NULL
                     /\ board[<<2, startY, startZ>>] = NULL
                     /\ board[<<3, startY, startZ>>] = NULL
                     /\ ~isSquareAttacked(2, startY, startZ, opponentColor, board)
                     /\ ~isSquareAttacked(3, startY, startZ, opponentColor, board)
                  THEN {MkMove(startX - 2, startY, startZ, FALSE, "queen")}
                  ELSE {})
            ELSE {}
    ELSE {}

\* Mutant: only the cell the king passes over is tested for attack, not
\* the cell it lands on.
CastleMoves_transitOnly(piece, board) ==
    IF piece.type = "K" /\ ~piece.hasMoved /\ ~isKingInCheck(piece.color, board)
    THEN LET color  == piece.color
             startX == piece.x
             startY == piece.y
             startZ == piece.z
             opponentColor == Opponent(color)
             kingY == 3
             kingZ == IF color = "white" THEN 0 ELSE 7
             kingsideRook  == board[<<7, startY, startZ>>]
             queensideRook == board[<<0, startY, startZ>>]
         IN IF startY = kingY /\ startZ = kingZ
            THEN (IF /\ kingsideRook # NULL
                     /\ kingsideRook.type = "R"
                     /\ ~kingsideRook.hasMoved
                     /\ kingsideRook.color = color
                     /\ board[<<5, startY, startZ>>] = NULL
                     /\ board[<<6, startY, startZ>>] = NULL
                     /\ ~isSquareAttacked(5, startY, startZ, opponentColor, board)
                  THEN {MkMove(startX + 2, startY, startZ, FALSE, "king")}
                  ELSE {})
                 \cup
                 (IF /\ queensideRook # NULL
                     /\ queensideRook.type = "R"
                     /\ ~queensideRook.hasMoved
                     /\ queensideRook.color = color
                     /\ board[<<1, startY, startZ>>] = NULL
                     /\ board[<<2, startY, startZ>>] = NULL
                     /\ board[<<3, startY, startZ>>] = NULL
                     /\ ~isSquareAttacked(3, startY, startZ, opponentColor, board)
                  THEN {MkMove(startX - 2, startY, startZ, FALSE, "queen")}
                  ELSE {})
            ELSE {}
    ELSE {}

\* Mutant: the cell the rook lands on is not required to be empty.
CastleMoves_landingOccupied(piece, board) ==
    IF piece.type = "K" /\ ~piece.hasMoved /\ ~isKingInCheck(piece.color, board)
    THEN LET color  == piece.color
             startX == piece.x
             startY == piece.y
             startZ == piece.z
             opponentColor == Opponent(color)
             kingY == 3
             kingZ == IF color = "white" THEN 0 ELSE 7
             kingsideRook  == board[<<7, startY, startZ>>]
             queensideRook == board[<<0, startY, startZ>>]
         IN IF startY = kingY /\ startZ = kingZ
            THEN (IF /\ kingsideRook # NULL
                     /\ kingsideRook.type = "R"
                     /\ ~kingsideRook.hasMoved
                     /\ kingsideRook.color = color
                     /\ board[<<6, startY, startZ>>] = NULL
                     /\ ~isSquareAttacked(5, startY, startZ, opponentColor, board)
                     /\ ~isSquareAttacked(6, startY, startZ, opponentColor, board)
                  THEN {MkMove(startX + 2, startY, startZ, FALSE, "king")}
                  ELSE {})
                 \cup
                 (IF /\ queensideRook # NULL
                     /\ queensideRook.type = "R"
                     /\ ~queensideRook.hasMoved
                     /\ queensideRook.color = color
                     /\ board[<<1, startY, startZ>>] = NULL
                     /\ board[<<2, startY, startZ>>] = NULL
                     /\ ~isSquareAttacked(2, startY, startZ, opponentColor, board)
                     /\ ~isSquareAttacked(3, startY, startZ, opponentColor, board)
                  THEN {MkMove(startX - 2, startY, startZ, FALSE, "queen")}
                  ELSE {})
            ELSE {}
    ELSE {}

\* gameLogic.ts:253-279
CastleMoves(piece, board) ==
    IF piece.type = "K" /\ ~piece.hasMoved /\ ~isKingInCheck(piece.color, board)
    THEN LET color  == piece.color
             startX == piece.x
             startY == piece.y
             startZ == piece.z
             opponentColor == Opponent(color)
             kingY == 3
             kingZ == IF color = "white" THEN 0 ELSE 7
             kingsideRook  == board[<<7, startY, startZ>>]
             queensideRook == board[<<0, startY, startZ>>]
         IN IF startY = kingY /\ startZ = kingZ
            THEN (IF /\ kingsideRook # NULL
                     /\ kingsideRook.type = "R"
                     /\ ~kingsideRook.hasMoved
                     /\ kingsideRook.color = color
                     /\ board[<<5, startY, startZ>>] = NULL
                     /\ board[<<6, startY, startZ>>] = NULL
                     /\ ~isSquareAttacked(5, startY, startZ, opponentColor, board)
                     /\ ~isSquareAttacked(6, startY, startZ, opponentColor, board)
                  THEN {MkMove(startX + 2, startY, startZ, FALSE, "king")}
                  ELSE {})
                 \cup
                 (IF /\ queensideRook # NULL
                     /\ queensideRook.type = "R"
                     /\ ~queensideRook.hasMoved
                     /\ queensideRook.color = color
                     /\ board[<<1, startY, startZ>>] = NULL
                     /\ board[<<2, startY, startZ>>] = NULL
                     /\ board[<<3, startY, startZ>>] = NULL
                     /\ ~isSquareAttacked(2, startY, startZ, opponentColor, board)
                     /\ ~isSquareAttacked(3, startY, startZ, opponentColor, board)
                  THEN {MkMove(startX - 2, startY, startZ, FALSE, "queen")}
                  ELSE {})
            ELSE {}
    ELSE {}

\* Mutant: a move after which the mover's own king is attacked is removed.
calculateValidMoves_legalOnly(piece, board) ==
    LET pseudo == IF piece.type = "P" THEN PawnMoves(piece, board)
                  ELSE IF piece.type = "N" THEN KnightMoves(piece, board)
                  ELSE SlidingMoves(piece, board) \cup CastleMoves(piece, board)
        after(m) == [[board EXCEPT ![CellOf(piece)] = NULL]
                        EXCEPT ![<<m.x, m.y, m.z>>] =
                                   [piece EXCEPT !.x = m.x, !.y = m.y, !.z = m.z]]
    IN {m \in pseudo : ~isKingInCheck(piece.color, after(m))}

calculateValidMoves(piece, board) ==
    IF piece.type = "P" THEN PawnMoves(piece, board)
    ELSE IF piece.type = "N" THEN KnightMoves(piece, board)
    ELSE SlidingMoves(piece, board) \cup CastleMoves(piece, board)

-----------------------------------------------------------------------------
(* Rendering side effect on the captured lists (InfoPanel.tsx:28,40,68):   *)
(* each render sorts both lists in place, by piece value, descending.      *)
(* Array.prototype.sort is stable.                                         *)

\* sortPieces(a, b) <= 0 : a may stay before b
sortPieces(a, b) == PIECE_VALUES[b.type] - PIECE_VALUES[a.type]

\* Stable insertion of p into an already sorted list.
RECURSIVE InsertSorted(_, _)
InsertSorted(list, p) ==
    IF list = <<>> THEN <<p>>
    ELSE IF sortPieces(Head(list), p) <= 0
         THEN <<Head(list)>> \o InsertSorted(Tail(list), p)
         ELSE <<p>> \o list

RECURSIVE SortCaptured(_)
SortCaptured(list) ==
    IF list = <<>> THEN <<>>
    ELSE InsertSorted(SortCaptured(SubSeq(list, 1, Len(list) - 1)), list[Len(list)])

RenderCaptured(captured) ==
    [white |-> SortCaptured(captured.white), black |-> SortCaptured(captured.black)]

-----------------------------------------------------------------------------
(* The valid-move effect (src/App.tsx:47-53): runs after a render in which *)
(* selectedPiece or boardState changed.                                    *)

ValidMovesEffect(selected, board) ==
    IF selected # NULL THEN calculateValidMoves(selected, board) ELSE {}

-----------------------------------------------------------------------------
(* executeMove (src/App.tsx:55-109)                                        *)

\* App.tsx:107 and 164: t => t === 'white' ? 'black' : 'white'
NextTurn(t) == IF t = "white" THEN "black" ELSE "white"

\* `${color.toUpperCase()} WINS!`
WinStatus(color) == IF color = "white" THEN "WHITE WINS!" ELSE "BLACK WINS!"

\* Mutant: the promotion layer is the pawn's own back layer.
promotionRank_ownSide(color) == IF color = "white" THEN 0 ELSE 7

\* App.tsx:58
promotionRank(color) == IF color = "white" THEN 7 ELSE 0

\* Mutant: the taken piece is recorded twice.
CapturedAfter_recordedTwice(captured, moverColor, targetPiece) ==
    IF targetPiece # NULL
    THEN [captured EXCEPT ![Opponent(moverColor)] = Append(Append(@, targetPiece), targetPiece)]
    ELSE captured

\* Mutant: the taken piece is recorded in the list of the mover's color.
CapturedAfter_moverBucket(captured, moverColor, targetPiece) ==
    IF targetPiece # NULL
    THEN [captured EXCEPT ![moverColor] = Append(@, targetPiece)]
    ELSE captured

\* App.tsx:67-76 and 145-154: the captured lists after taking targetPiece
CapturedAfter(captured, moverColor, targetPiece) ==
    IF targetPiece # NULL
    THEN [captured EXCEPT ![Opponent(moverColor)] = Append(@, targetPiece)]
    ELSE captured

\* Mutant: the win is credited to the color that lost its king.
StatusAfter_loserNamed(status, moverColor, targetPiece) ==
    IF targetPiece # NULL /\ targetPiece.type = "K"
    THEN WinStatus(Opponent(moverColor)) ELSE status

\* App.tsx:67-70 and 145-148
StatusAfter(status, moverColor, targetPiece) ==
    IF targetPiece # NULL /\ targetPiece.type = "K" THEN WinStatus(moverColor) ELSE status

\* Mutant: the rook is written to its new cell but its corner is not cleared.
CastleRook_cornerKept(board, castle, targetX, targetY, targetZ) ==
    LET corner == IF castle = "king" THEN 7 ELSE 0
        rookX  == IF castle = "king" THEN targetX - 1 ELSE targetX + 1
        rook   == board[<<corner, targetY, targetZ>>]
    IN IF rook # NULL
       THEN [board EXCEPT ![<<rookX, targetY, targetZ>>] =
                              [rook EXCEPT !.x = rookX, !.hasMoved = TRUE]]
       ELSE board

\* Mutant: the castling rook is put on its new cell with its old x.
CastleRook_staleX(board, castle, targetX, targetY, targetZ) ==
    LET corner == IF castle = "king" THEN 7 ELSE 0
        rookX  == IF castle = "king" THEN targetX - 1 ELSE targetX + 1
        rook   == board[<<corner, targetY, targetZ>>]
    IN IF rook # NULL
       THEN [[board EXCEPT ![<<corner, targetY, targetZ>>] = NULL]
                EXCEPT ![<<rookX, targetY, targetZ>>] = [rook EXCEPT !.hasMoved = TRUE]]
       ELSE board

\* App.tsx:84-100: the rook's relocation on the board that already holds the king
CastleRook(board, castle, targetX, targetY, targetZ) ==
    LET corner == IF castle = "king" THEN 7 ELSE 0
        rookX  == IF castle = "king" THEN targetX - 1 ELSE targetX + 1
        rook   == board[<<corner, targetY, targetZ>>]
    IN IF rook # NULL
       THEN [[board EXCEPT ![<<corner, targetY, targetZ>>] = NULL]
                EXCEPT ![<<rookX, targetY, targetZ>>] =
                           [rook EXCEPT !.x = rookX, !.hasMoved = TRUE]]
       ELSE board

\* Mutant: the relocated piece keeps its hasMoved flag.
BoardAfterMove_flagKept(board, piece, targetX, targetY, targetZ, move) ==
    LET cleared == [board EXCEPT ![<<piece.x, piece.y, piece.z>>] = NULL]
        moved   == [piece EXCEPT !.x = targetX, !.y = targetY, !.z = targetZ]
        placed  == [cleared EXCEPT ![<<targetX, targetY, targetZ>>] = moved]
    IN IF move.castle # "none"
       THEN CastleRook(placed, move.castle, targetX, targetY, targetZ)
       ELSE placed

\* Mutant: the relocated piece keeps the position of its old cell.
BoardAfterMove_stalePosition(board, piece, targetX, targetY, targetZ, move) ==
    LET cleared == [board EXCEPT ![<<piece.x, piece.y, piece.z>>] = NULL]
        moved   == [piece EXCEPT !.hasMoved = TRUE]
        placed  == [cleared EXCEPT ![<<targetX, targetY, targetZ>>] = moved]
    IN IF move.castle # "none"
       THEN CastleRook(placed, move.castle, targetX, targetY, targetZ)
       ELSE placed

\* App.tsx:64-104: the new board of a committed move
BoardAfterMove(board, piece, targetX, targetY, targetZ, move) ==
    LET cleared == [board EXCEPT ![<<piece.x, piece.y, piece.z>>] = NULL]
        moved   == [piece EXCEPT !.x = targetX, !.y = targetY, !.z = targetZ,
                                 !.hasMoved = TRUE]
        placed  == [cleared EXCEPT ![<<targetX, targetY, targetZ>>] = moved]
    IN IF move.castle # "none"
       THEN CastleRook(placed, move.castle, targetX, targetY, targetZ)
       ELSE placed

\* Mutant: a move that takes the enemy king leaves the side to move as it was.
CommitMove_kingCaptureKeepsTurn(piece, targetX, targetY, targetZ, move) ==
    LET targetPiece == boardState[<<targetX, targetY, targetZ>>]
    IN /\ gameStatus' = StatusAfter(gameStatus, piece.color, targetPiece)
       /\ capturedPieces' =
              RenderCaptured(CapturedAfter(capturedPieces, piece.color, targetPiece))
       /\ boardState' = BoardAfterMove(boardState, piece, targetX, targetY, targetZ, move)
       /\ turn' = IF targetPiece # NULL /\ targetPiece.type = "K"
                  THEN turn ELSE NextTurn(turn)
       /\ selectedPiece' = NULL
       /\ validMoves' = ValidMovesEffect(selectedPiece', boardState')
       /\ UNCHANGED promotionData
       /\ lastEvent' = "click:move"

\* App.tsx:64-108: the committing part of executeMove, then the render
\* (InfoPanel's sort) and the valid-move effect
CommitMove(piece, targetX, targetY, targetZ, move) ==
    LET targetPiece == boardState[<<targetX, targetY, targetZ>>]
    IN /\ gameStatus' = StatusAfter(gameStatus, piece.color, targetPiece)
       /\ capturedPieces' =
              RenderCaptured(CapturedAfter(capturedPieces, piece.color, targetPiece))
       /\ boardState' = BoardAfterMove(boardState, piece, targetX, targetY, targetZ, move)
       /\ turn' = NextTurn(turn)
       /\ selectedPiece' = NULL
       /\ validMoves' = ValidMovesEffect(selectedPiece', boardState')
       /\ UNCHANGED promotionData
       /\ lastEvent' = "click:move"

\* Mutant: a pawn reaching the back layer is moved at once, unpromoted.
executeMove_noPending(piece, targetX, targetY, targetZ, move) ==
    CommitMove(piece, targetX, targetY, targetZ, move)

executeMove(piece, targetX, targetY, targetZ, move) ==
    IF piece.type = "P" /\ targetZ = promotionRank(piece.color)
    THEN /\ promotionData' = [piece |-> piece, x |-> targetX, y |-> targetY, z |-> targetZ]
         /\ UNCHANGED <<boardState, turn, selectedPiece, validMoves, capturedPieces, gameStatus>>
         /\ lastEvent' = "click:pending"
    ELSE CommitMove(piece, targetX, targetY, targetZ, move)

-----------------------------------------------------------------------------
(* handleSquareClick (src/App.tsx:112-134)                                 *)

\* Mutant: a clicked piece is selected whatever its color.
Select_anyColor(clickedPiece, deselect) ==
    /\ selectedPiece' = IF clickedPiece # NULL
                        THEN clickedPiece
                        ELSE IF deselect THEN NULL ELSE selectedPiece
    /\ validMoves' = IF selectedPiece' # selectedPiece
                     THEN ValidMovesEffect(selectedPiece', boardState)
                     ELSE validMoves
    /\ UNCHANGED <<boardState, turn, capturedPieces, gameStatus, promotionData>>
    /\ lastEvent' = IF deselect THEN "click:rejected"
                    ELSE IF selectedPiece' = NULL THEN "click:clear" ELSE "click:select"

\* App.tsx:124-128 and 130-132, followed by the valid-move effect
Select(clickedPiece, deselect) ==
    /\ selectedPiece' = IF clickedPiece # NULL /\ clickedPiece.color = turn
                        THEN clickedPiece
                        ELSE IF deselect THEN NULL ELSE selectedPiece
    /\ validMoves' = IF selectedPiece' # selectedPiece
                     THEN ValidMovesEffect(selectedPiece', boardState)
                     ELSE validMoves
    /\ UNCHANGED <<boardState, turn, capturedPieces, gameStatus, promotionData>>
    /\ lastEvent' = IF deselect THEN "click:rejected"
                    ELSE IF selectedPiece' = NULL THEN "click:clear" ELSE "click:select"

\* Mutant: a click is handled while a promotion is pending.
ClickBlocked_statusOnly == gameStatus # "active"

\* Mutant: a click is handled after the game has ended.
ClickBlocked_pendingOnly == promotionData # NULL

\* App.tsx:113
ClickBlocked == gameStatus # "active" \/ promotionData # NULL

\* Mutant: the clicked cell is not looked up in the valid-move list; the
\* selected piece is moved to whatever cell was clicked.
handleSquareClick_anyCell(x, y, z) ==
    IF ClickBlocked
    THEN /\ UNCHANGED appState
         /\ lastEvent' = "click:ignored"
    ELSE LET clickedPiece == boardState[<<x, y, z>>]
         IN IF selectedPiece # NULL
            THEN executeMove(selectedPiece, x, y, z,
                             IF \E m \in validMoves : m.x = x /\ m.y = y /\ m.z = z
                             THEN CHOOSE m \in validMoves : m.x = x /\ m.y = y /\ m.z = z
                             ELSE MkMove(x, y, z, clickedPiece # NULL, "none"))
            ELSE Select(clickedPiece, FALSE)

handleSquareClick(x, y, z) ==
    IF ClickBlocked
    THEN /\ UNCHANGED appState
         /\ lastEvent' = "click:ignored"
    ELSE LET clickedPiece == boardState[<<x, y, z>>]
         IN IF selectedPiece # NULL
            THEN IF \E m \in validMoves : m.x = x /\ m.y = y /\ m.z = z
                 THEN executeMove(selectedPiece, x, y, z,
                                  CHOOSE m \in validMoves : m.x = x /\ m.y = y /\ m.z = z)
                 ELSE Select(clickedPiece, TRUE)
            ELSE Select(clickedPiece, FALSE)

-----------------------------------------------------------------------------
(* handlePromotion (src/App.tsx:136-167), called from PromotionModal       *)

\* Mutant: the modal also offers a King.
promotionPieces_withKing == {"Q", "R", "B", "N", "K"}

\* PromotionModal.tsx:11
promotionPieces == {"Q", "R", "B", "N"}

\* Mutant: the pawn's origin cell is not cleared.
BoardAfterPromotion_originKept(board, data, promotedTo) ==
    [board EXCEPT ![<<data.x, data.y, data.z>>] =
        MkPiece(promotedTo, data.piece.color, data.x, data.y, data.z, TRUE)]

\* App.tsx:140-161
BoardAfterPromotion(board, data, promotedTo) ==
    LET cleared == [board EXCEPT ![<<data.piece.x, data.piece.y, data.piece.z>>] = NULL]
    IN [cleared EXCEPT ![<<data.x, data.y, data.z>>] =
           MkPiece(promotedTo, data.piece.color, data.x, data.y, data.z, TRUE)]

\* Mutant: completing a promotion does not pass the turn.
handlePromotion_turnKept(promotedTo) ==
    IF promotionData = NULL
    THEN /\ UNCHANGED appState
         /\ lastEvent' = "promote:ignored"
    ELSE LET piece == promotionData.piece
             cleared == [boardState EXCEPT ![<<piece.x, piece.y, piece.z>>] = NULL]
             targetPiece == cleared[<<promotionData.x, promotionData.y, promotionData.z>>]
         IN /\ gameStatus' = StatusAfter(gameStatus, piece.color, targetPiece)
            /\ capturedPieces' =
                   RenderCaptured(CapturedAfter(capturedPieces, piece.color, targetPiece))
            /\ boardState' = BoardAfterPromotion(boardState, promotionData, promotedTo)
            /\ turn' = turn
            /\ selectedPiece' = NULL
            /\ promotionData' = NULL
            /\ validMoves' = ValidMovesEffect(selectedPiece', boardState')
            /\ lastEvent' = "promote"

handlePromotion(promotedTo) ==
    IF promotionData = NULL
    THEN /\ UNCHANGED appState
         /\ lastEvent' = "promote:ignored"
    ELSE LET piece == promotionData.piece
             cleared == [boardState EXCEPT ![<<piece.x, piece.y, piece.z>>] = NULL]
             targetPiece == cleared[<<promotionData.x, promotionData.y, promotionData.z>>]
         IN /\ gameStatus' = StatusAfter(gameStatus, piece.color, targetPiece)
            /\ capturedPieces' =
                   RenderCaptured(CapturedAfter(capturedPieces, piece.color, targetPiece))
            /\ boardState' = BoardAfterPromotion(boardState, promotionData, promotedTo)
            /\ turn' = NextTurn(turn)
            /\ selectedPiece' = NULL
            /\ promotionData' = NULL
            /\ validMoves' = ValidMovesEffect(selectedPiece', boardState')
            /\ lastEvent' = "promote"

-----------------------------------------------------------------------------
(* The game session, from the initial layout.  Clicks come from the layer  *)
(* canvases (src/unnamed/part_002:96-101); the promotion buttons exist     *)
(* only while the modal is rendered (src/App.tsx:248).                     *)

\* Committed moves observed per session.
MaxMoves == 9

\* The cells a player clicks: a White pawn's way to promotion on column
\* (2,3), a White and a Black knight's way to the enemy king, and the
\* pieces that can meet them.
ClickCells ==
    { <<2,3,1>>, <<2,3,3>>, <<2,3,4>>, <<2,3,5>>, <<3,2,6>>, <<3,3,7>>, <<4,3,7>>,
      <<1,3,7>>, <<4,3,4>>, <<4,4,2>>, <<4,3,0>>,
      <<1,3,0>>, <<2,3,2>>, <<4,3,3>>, <<4,4,5>> }

Init ==
    /\ boardState = initializeBoardState
    /\ turn = "white"
    /\ selectedPiece = NULL
    /\ validMoves = {}
    /\ capturedPieces = [white |-> <<>>, black |-> <<>>]
    /\ gameStatus = "active"
    /\ promotionData = NULL
    /\ lastEvent = "init"
    /\ moveCount = 0
    /\ generated = <<>>
    /\ attacked = <<>>

Committed(event) == event \in {"click:move", "promote"}

Click(c, limit) ==
    /\ moveCount < limit
    /\ handleSquareClick(c[1], c[2], c[3])
    /\ moveCount' = IF Committed(lastEvent') THEN moveCount + 1 ELSE moveCount
    /\ UNCHANGED <<generated, attacked>>

Promote(promotedTo, limit) ==
    /\ moveCount < limit
    /\ promotionData # NULL
    /\ handlePromotion(promotedTo)
    /\ moveCount' = IF Committed(lastEvent') THEN moveCount + 1 ELSE moveCount
    /\ UNCHANGED <<generated, attacked>>

Next ==
    \/ \E c \in ClickCells : Click(c, MaxMoves)
    \/ \E promotedTo \in promotionPieces : Promote(promotedTo, MaxMoves)

Spec == Init /\ [][Next]_vars

-----------------------------------------------------------------------------
(* The game session with a second plan for White: clear the way between    *)
(* the king and the kingside rook (pawn (5,3,1) up, queen (5,3,0) behind   *)
(* it, knight (6,3,0) out) and castle.  A player follows one plan: the     *)
(* cells of a plan are clicked only while the pieces of the other plan     *)
(* stand untouched.                                                        *)

KingsideCells == { <<5,3,1>>, <<5,3,2>>, <<5,3,0>>, <<6,3,0>>, <<6,4,2>> }

PromotionPlanStarts == { <<2,3,1>> }

KingsidePlanStarts == { <<5,3,1>>, <<5,3,0>>, <<6,3,0>> }

Untouched(cells) == \A c \in cells : boardState[c] = initializeBoardState[c]

\* Committed moves observed once the kingside plan has begun.
MaxKingsideMoves == 7

PlanClick(c) ==
    /\ c \in KingsideCells => Untouched(PromotionPlanStarts)
    /\ c \in PromotionPlanStarts => Untouched(KingsidePlanStarts)
    /\ Click(c, IF Untouched(KingsidePlanStarts) THEN MaxMoves ELSE MaxKingsideMoves)

\* The cells clicked in these sessions: the White knight's way to the
\* Black king is left out.
PlayCells ==
    (ClickCells \ { <<1,3,0>>, <<2,3,2>>, <<4,3,3>>, <<4,4,5>> }) \cup KingsideCells

NextPlay ==
    \/ \E c \in PlayCells : PlanClick(c)
    \/ \E promotedTo \in promotionPieces : Promote(promotedTo, MaxMoves)

PlaySpec == Init /\ [][NextPlay]_vars

-----------------------------------------------------------------------------
(* Castling, from the initial layout with the cells between a king and a   *)
(* rook of its row emptied.                                                *)

\* Committed moves observed per castling session.
MaxCastleMoves == 2

CastleSides == {"white", "black"} \X {"king", "queen"}

HomeZ(color) == IF color = "white" THEN 0 ELSE 7

\* The cells between the king (4,3,z) and the rook of that side.
BetweenCells(side) ==
    {<<x, 3, HomeZ(side[1])>> : x \in IF side[2] = "king" THEN {5, 6} ELSE {1, 2, 3}}

ClearedBoard(sides) ==
    [c \in Cells |->
        IF \E side \in sides : c \in BetweenCells(side)
        THEN NULL
        ELSE initializeBoardState[c]]

\* The two home rows.
CastleClickCells == {<<x, 3, z>> : x \in Coords, z \in {0, SIZE - 1}}

InitCastle ==
    /\ \E sides \in (SUBSET CastleSides) \ {{}} : boardState = ClearedBoard(sides)
    /\ turn = "white"
    /\ selectedPiece = NULL
    /\ validMoves = {}
    /\ capturedPieces = [white |-> <<>>, black |-> <<>>]
    /\ gameStatus = "active"
    /\ promotionData = NULL
    /\ lastEvent = "init"
    /\ moveCount = 0
    /\ generated = <<>>
    /\ attacked = <<>>

NextCastle == \E c \in CastleClickCells : Click(c, MaxCastleMoves)

CastleSpec == InitCastle /\ [][NextCastle]_vars

-----------------------------------------------------------------------------
(* The pure functions calculateValidMoves and isSquareAttacked, applied to *)
(* boards drawn from a bounded family: the initial layout and a rook       *)
(* endgame, each changed on at most MaxPlaced cells.  A placed piece has   *)
(* moved; a piece of the base board has not.                               *)

\* Cells changed on a base board.
MaxPlaced == 2

\* Both kings and their four row rooks, none of which has moved.
EndgameBoard ==
    [c \in Cells |->
        IF c[2] = 3 /\ c[3] \in {0, SIZE - 1} /\ c[1] \in {0, 4, SIZE - 1}
        THEN initializeBoardState[c]
        ELSE NULL]

\* A cell vacated ("none") or taken by a piece that moved there.
Placements ==
    { [cell |-> <<5,3,0>>, type |-> "none", color |-> "none"],
      [cell |-> <<6,3,0>>, type |-> "none", color |-> "none"],
      [cell |-> <<5,3,1>>, type |-> "none", color |-> "none"],
      [cell |-> <<5,3,4>>, type |-> "R", color |-> "black"],
      [cell |-> <<5,3,4>>, type |-> "P", color |-> "white"],
      [cell |-> <<5,3,2>>, type |-> "N", color |-> "black"],
      [cell |-> <<3,3,4>>, type |-> "B", color |-> "white"],
      [cell |-> <<3,3,4>>, type |-> "Q", color |-> "black"],
      [cell |-> <<5,4,5>>, type |-> "P", color |-> "black"] }

Place(board, pl) ==
    [board EXCEPT ![pl.cell] =
        IF pl.type = "none" THEN NULL
        ELSE MkPiece(pl.type, pl.color, pl.cell[1], pl.cell[2], pl.cell[3], TRUE)]

RECURSIVE BoardsWith(_, _)
BoardsWith(base, k) ==
    IF k = 0 THEN {base}
    ELSE LET prev == BoardsWith(base, k - 1)
         IN prev \cup {Place(b, pl) : b \in prev, pl \in Placements}

AnalysisBoards ==
    BoardsWith(initializeBoardState, MaxPlaced) \cup BoardsWith(EndgameBoard, MaxPlaced)

OccupiedCells(board) == {c \in Cells : board[c] # NULL}

InitGen ==
    /\ boardState \in AnalysisBoards
    /\ turn = "white"
    /\ selectedPiece = NULL
    /\ validMoves = {}
    /\ capturedPieces = [white |-> <<>>, black |-> <<>>]
    /\ gameStatus = "active"
    /\ promotionData = NULL
    /\ lastEvent = "init"
    /\ moveCount = 0
    /\ generated = <<>>
    /\ attacked = <<>>

\* calculateValidMoves for every piece of the board.
GenerateMoves ==
    /\ lastEvent = "init"
    /\ generated' = [c \in OccupiedCells(boardState) |->
                        calculateValidMoves(boardState[c], boardState)]
    /\ lastEvent' = "generate"
    /\ UNCHANGED <<appState, moveCount, attacked>>

\* isSquareAttacked for every cell and either color.
ProbeAttacks ==
    /\ lastEvent = "generate"
    /\ attacked' = [color \in Colors |->
                       {c \in Cells : isSquareAttacked(c[1], c[2], c[3], color, boardState)}]
    /\ lastEvent' = "probe"
    /\ UNCHANGED <<appState, moveCount, generated>>

NextGen == GenerateMoves \/ ProbeAttacks

GenSpec == InitGen /\ [][NextGen]_vars

-----------------------------------------------------------------------------
(* Properties of the move generator and the attack detector (GenSpec).     *)

MoveCell(m) == <<m.x, m.y, m.z>>

Occupied(board, c) == board[c] # NULL

OwnOccupied(board, c, color) == board[c] # NULL /\ board[c].color = color

\* C1: every generated move has its destination inside the cube, and the
\* destination never holds a piece of the mover's color (so never the mover).
C1_InBoundsNotOwn ==
    \A c \in DOMAIN generated : \A m \in generated[c] :
        /\ m.x \in 0..7 /\ m.y \in 0..7 /\ m.z \in 0..7
        /\ ~OwnOccupied(boardState, MoveCell(m), boardState[c].color)
        /\ MoveCell(m) # c

\* C1 witness: moves were generated for a piece that has an own piece for a
\* neighbour and stands on the edge of the cube.
C1_Witness ==
    \E c \in DOMAIN generated :
        /\ generated[c] # {}
        /\ \E d \in all3DDirections :
              /\ <<c[1] + d[1], c[2] + d[2], c[3] + d[3]>> \in Cells
              /\ OwnOccupied(boardState, <<c[1] + d[1], c[2] + d[2], c[3] + d[3]>>,
                             boardState[c].color)
        /\ \E d \in all3DDirections : <<c[1] + d[1], c[2] + d[2], c[3] + d[3]>> \notin Cells

\* The distance of a move: the largest coordinate difference.
Distance(c, m) ==
    LET ax == Abs(m.x - c[1])
        ay == Abs(m.y - c[2])
        az == Abs(m.z - c[3])
    IN IF ax >= ay /\ ax >= az THEN ax ELSE IF ay >= az THEN ay ELSE az

\* The cell j steps from c on the straight line to the destination of m.
StepTowards(c, m, j) ==
    LET k == Distance(c, m)
    IN <<c[1] + ((m.x - c[1]) \div k) * j,
         c[2] + ((m.y - c[2]) \div k) * j,
         c[3] + ((m.z - c[3]) \div k) * j>>

\* C2: a Rook, Bishop or Queen move of distance k lies k steps along one of
\* the 26 directions, and the cells 1..k-1 steps along it are all empty.
C2_NoJump ==
    \A c \in DOMAIN generated :
        boardState[c].type \in {"R", "B", "Q"} =>
            \A m \in generated[c] :
                LET k == Distance(c, m)
                IN /\ k >= 1
                   /\ StepTowards(c, m, k) = MoveCell(m)
                   /\ \A j \in 1..(k - 1) : ~Occupied(boardState, StepTowards(c, m, j))

\* C2 witness: a sliding piece captures at a distance > 1, and the cell
\* behind the captured piece, inside the cube, is not among its moves.
C2_Witness ==
    \E c \in DOMAIN generated :
        /\ boardState[c].type \in {"R", "B", "Q"}
        /\ \E m \in generated[c] :
              /\ Distance(c, m) > 1
              /\ m.capture
              /\ StepTowards(c, m, Distance(c, m) + 1) \in Cells
              /\ \A n \in generated[c] :
                    MoveCell(n) # StepTowards(c, m, Distance(c, m) + 1)

\* The cells some piece of `color` has a generated move to, a pawn counting
\* for its 8 forward capture cells instead of its move list.
LandingCells(color) ==
    LET zDir == IF color = "white" THEN 1 ELSE -1
        own  == {c \in DOMAIN generated : boardState[c].color = color}
    IN UNION { IF boardState[c].type = "P"
               THEN {<<c[1] + d[1], c[2] + d[2], c[3] + zDir>> : d \in pawnCaptureDirections}
                        \cap Cells
               ELSE {MoveCell(m) : m \in generated[c]} : c \in own }

\* C3 as stated: on every cell, attacked by a color = reached by a generated
\* move of that color (pawns by their capture cells).
C3_AttackIffMove ==
    lastEvent = "probe" =>
        \A color \in Colors : attacked[color] = LandingCells(color)

\* C3 as amended: the same on every cell that holds no piece of that color.
C3_AttackIffMoveOffOwnCells ==
    lastEvent = "probe" =>
        \A color \in Colors :
            {c \in attacked[color] : ~OwnOccupied(boardState, c, color)}
                = {c \in LandingCells(color) : ~OwnOccupied(boardState, c, color)}

\* C3 witness: White attacks an empty cell and a cell held by Black, does
\* not attack some other empty cell, and White's king may castle.
C3_Witness ==
    /\ lastEvent = "probe"
    /\ \E c \in attacked["white"] : ~Occupied(boardState, c)
    /\ \E c \in attacked["white"] : OwnOccupied(boardState, c, "black")
    /\ \E c \in Cells \ attacked["white"] : ~Occupied(boardState, c)
    /\ \E c \in DOMAIN generated :
          boardState[c].color = "white" /\ \E m \in generated[c] : m.castle # "none"

-----------------------------------------------------------------------------
(* calculateValidMoves applied to castling positions: the rook endgame     *)
(* with at most MaxCastlePlaced cells changed, by an attacker on a column  *)
(* of a home row cell, a blocker, or a king, rook or corner piece that has *)
(* moved.                                                                  *)

\* Cells changed on the rook endgame.
MaxCastlePlaced == 2

CastlePlacements ==
    { [cell |-> <<6,3,4>>, type |-> "R", color |-> "black"],
      [cell |-> <<5,3,4>>, type |-> "R", color |-> "black"],
      [cell |-> <<4,3,4>>, type |-> "R", color |-> "black"],
      [cell |-> <<3,3,4>>, type |-> "R", color |-> "black"],
      [cell |-> <<2,3,4>>, type |-> "R", color |-> "black"],
      [cell |-> <<1,3,4>>, type |-> "R", color |-> "black"],
      [cell |-> <<6,3,3>>, type |-> "R", color |-> "white"],
      [cell |-> <<6,3,0>>, type |-> "N", color |-> "white"],
      [cell |-> <<7,3,0>>, type |-> "R", color |-> "white"],
      [cell |-> <<0,3,0>>, type |-> "B", color |-> "white"],
      [cell |-> <<4,3,0>>, type |-> "K", color |-> "white"] }

RECURSIVE CastleBoardsWith(_, _)
CastleBoardsWith(base, k) ==
    IF k = 0 THEN {base}
    ELSE LET prev == CastleBoardsWith(base, k - 1)
         IN prev \cup {Place(b, pl) : b \in prev, pl \in CastlePlacements}

InitCastleGen ==
    /\ boardState \in CastleBoardsWith(EndgameBoard, MaxCastlePlaced)
    /\ turn = "white"
    /\ selectedPiece = NULL
    /\ validMoves = {}
    /\ capturedPieces = [white |-> <<>>, black |-> <<>>]
    /\ gameStatus = "active"
    /\ promotionData = NULL
    /\ lastEvent = "init"
    /\ moveCount = 0
    /\ generated = <<>>
    /\ attacked = <<>>

NextCastleGen == GenerateMoves

CastleGenSpec == InitCastleGen /\ [][NextCastleGen]_vars

-----------------------------------------------------------------------------
(* calculateValidMoves applied to a board that holds one piece, a Knight   *)
(* or a King, on any cell.                                                 *)

LoneBoard(piece) == [c \in Cells |-> IF c = CellOf(piece) THEN piece ELSE NULL]

LonePieces ==
    {MkPiece(type, color, c[1], c[2], c[3], hasMoved) :
        type \in {"N", "K"}, color \in Colors, c \in Cells, hasMoved \in BOOLEAN}

InitLone ==
    /\ boardState \in {LoneBoard(piece) : piece \in LonePieces}
    /\ turn = "white"
    /\ selectedPiece = NULL
    /\ validMoves = {}
    /\ capturedPieces = [white |-> <<>>, black |-> <<>>]
    /\ gameStatus = "active"
    /\ promotionData = NULL
    /\ lastEvent = "init"
    /\ moveCount = 0
    /\ generated = <<>>
    /\ attacked = <<>>

NextLone == GenerateMoves

LoneSpec == InitLone /\ [][NextLone]_vars

-----------------------------------------------------------------------------
(* executeMove applied twice: a generated move of a piece, then the        *)
(* displacement of the same piece back to the cell it came from.  The      *)
(* boards are the initial layout and the rook endgame with at most         *)
(* MaxRoundTripPlaced cells changed.                                       *)

\* Cells changed on a base board.
MaxRoundTripPlaced == 1

\* The cells of the pieces that are moved out and back.
RoundTripCells ==
    { <<5,3,1>>, <<6,3,0>>, <<4,3,0>>, <<7,3,0>>, <<5,3,6>>,
      <<5,3,4>>, <<5,3,2>>, <<3,3,4>>, <<5,4,5>> }

InitRoundTrip ==
    /\ boardState \in BoardsWith(initializeBoardState, MaxRoundTripPlaced)
                          \cup BoardsWith(EndgameBoard, MaxRoundTripPlaced)
    /\ turn \in Colors
    /\ selectedPiece = NULL
    /\ validMoves = {}
    /\ capturedPieces = [white |-> <<>>, black |-> <<>>]
    /\ gameStatus = "active"
    /\ promotionData = NULL
    /\ lastEvent = "init"
    /\ moveCount = 0
    /\ generated = <<>>
    /\ attacked = <<>>

\* executeMove(piece, move), then executeMove(the piece on the destination,
\* back to piece's cell).  A pawn's move to the back layer commits nothing
\* (App.tsx:59-62) and is left out.
RoundTrip(c, move) ==
    LET piece == boardState[c]
        dest == <<move.x, move.y, move.z>>
        targetPiece == boardState[dest]
        out == BoardAfterMove(boardState, piece, move.x, move.y, move.z, move)
        back == MkMove(c[1], c[2], c[3], FALSE, "none")
    IN /\ lastEvent = "init"
       /\ piece.color = turn
       /\ ~(piece.type = "P" /\ move.z = promotionRank(piece.color))
       /\ boardState' = BoardAfterMove(out, out[dest], c[1], c[2], c[3], back)
       /\ gameStatus' = StatusAfter(gameStatus, piece.color, targetPiece)
       /\ capturedPieces' =
              RenderCaptured(CapturedAfter(capturedPieces, piece.color, targetPiece))
       /\ turn' = NextTurn(NextTurn(turn))
       /\ selectedPiece' = NULL
       /\ validMoves' = ValidMovesEffect(selectedPiece', boardState')
       /\ UNCHANGED <<promotionData, attacked>>
       /\ generated' = [e \in {c} |-> {move}]
       /\ moveCount' = moveCount + 2
       /\ lastEvent' = "roundtrip"

NextRoundTrip ==
    \E c \in RoundTripCells :
        /\ boardState[c] # NULL
        /\ \E move \in calculateValidMoves(boardState[c], boardState) : RoundTrip(c, move)

RoundTripSpec == InitRoundTrip /\ [][NextRoundTrip]_vars

-----------------------------------------------------------------------------
(* Castling end to end (CastleSpec).                                       *)

RookX(side) == IF side[2] = "king" THEN 7 ELSE 0

KingTargetX(side) == IF side[2] = "king" THEN 6 ELSE 2

RookTargetX(side) == IF side[2] = "king" THEN 5 ELSE 3

\* King and rook of `side` stand unmoved on their cells with nothing between.
CastleReady(board, side) ==
    LET z    == HomeZ(side[1])
        king == board[<<4, 3, z>>]
        rook == board[<<RookX(side), 3, z>>]
    IN /\ king # NULL /\ king.type = "K" /\ king.color = side[1] /\ ~king.hasMoved
       /\ rook # NULL /\ rook.type = "R" /\ rook.color = side[1] /\ ~rook.hasMoved
       /\ \A c \in BetweenCells(side) : board[c] = NULL

\* The selected king's move list holds the castle move of every ready side.
C4_CastleGenerated ==
    \A side \in CastleSides :
        (/\ CastleReady(boardState, side)
         /\ selectedPiece = boardState[<<4, 3, HomeZ(side[1])>>])
        => MkMove(KingTargetX(side), 3, HomeZ(side[1]), FALSE, side[2]) \in validMoves

\* The step commits the castle move of `side`.
CastleStep(side) ==
    /\ lastEvent' = "click:move"
    /\ selectedPiece # NULL
    /\ selectedPiece.type = "K"
    /\ selectedPiece.color = side[1]
    /\ \E m \in validMoves : m.castle = side[2] /\ boardState'[MoveCell(m)] # NULL
                                               /\ boardState'[MoveCell(m)].type = "K"

CastleResult(side) ==
    LET z == HomeZ(side[1])
    IN /\ boardState'[<<KingTargetX(side), 3, z>>]
              = MkPiece("K", side[1], KingTargetX(side), 3, z, TRUE)
       /\ boardState'[<<RookTargetX(side), 3, z>>]
              = MkPiece("R", side[1], RookTargetX(side), 3, z, TRUE)
       /\ boardState'[<<4, 3, z>>] = NULL
       /\ boardState'[<<RookX(side), 3, z>>] = NULL
       /\ \A c \in Cells :
             c \notin {<<4, 3, z>>, <<RookX(side), 3, z>>,
                       <<KingTargetX(side), 3, z>>, <<RookTargetX(side), 3, z>>}
             => boardState'[c] = boardState[c]
       /\ turn = side[1]
       /\ turn' = Opponent(side[1])

\* C4: with king and rook unmoved and the cells between them emptied, the
\* king's moves include the castle move, and applying it puts the king on
\* x=6 (x=2), the rook on x=5 (x=3), empties both origins, marks both pieces
\* moved with positions equal to their cells, and passes the turn.
C4_Castling ==
    /\ []C4_CastleGenerated
    /\ [][\A side \in CastleSides : CastleStep(side) => CastleResult(side)]_vars

\* C4 witness: White has castled kingside and Black queenside.
C4_Witness ==
    /\ lastEvent = "click:move"
    /\ boardState[<<6, 3, 0>>] # NULL /\ boardState[<<6, 3, 0>>].type = "K"
    /\ boardState[<<5, 3, 0>>] # NULL /\ boardState[<<5, 3, 0>>].type = "R"
    /\ boardState[<<2, 3, 7>>] # NULL /\ boardState[<<2, 3, 7>>].type = "K"
    /\ boardState[<<3, 3, 7>>] # NULL /\ boardState[<<3, 3, 7>>].type = "R"

-----------------------------------------------------------------------------
(* Promotion, king capture and game over (Spec).                           *)

\* The piece whose move the step commits.
Mover == IF lastEvent' = "promote" THEN promotionData.piece ELSE selectedPiece

HasKing(board, color) ==
    \E c \in Cells : board[c] # NULL /\ board[c].type = "K" /\ board[c].color = color

BackLayer(color) == IF color = "white" THEN SIZE - 1 ELSE 0

\* The step commits a move that takes the enemy king.
KingCaptureStep ==
    /\ Committed(lastEvent')
    /\ HasKing(boardState, Opponent(Mover.color))
    /\ ~HasKing(boardState', Opponent(Mover.color))

PawnOnBackLayer(board) ==
    \E c \in Cells : /\ board[c] # NULL
                     /\ board[c].type = "P"
                     /\ c[3] = BackLayer(board[c].color)

\* The step on which a promotion becomes pending records the selected pawn
\* and a destination on the back layer, and nothing else.
PendingRecorded ==
    (promotionData = NULL /\ promotionData' # NULL)
    => /\ lastEvent' = "click:pending"
       /\ selectedPiece # NULL /\ selectedPiece.type = "P"
       /\ promotionData'.piece = selectedPiece
       /\ promotionData'.z = BackLayer(selectedPiece.color)
       /\ \E m \in validMoves :
             MoveCell(m) = <<promotionData'.x, promotionData'.y, promotionData'.z>>
       /\ boardState[CellOf(selectedPiece)] = selectedPiece
       /\ UNCHANGED <<boardState, turn, capturedPieces, gameStatus>>

\* C5: a pawn's move to the opponent's back layer only records the pending
\* promotion; the board, the side to move, the captured lists and the game
\* status stay as they were on that step and on every step until
\* handlePromotion runs, and no click ever moves a pawn onto its back layer.
C5_PromotionFirstPhase ==
    [][/\ PendingRecorded
       /\ (promotionData # NULL /\ lastEvent' # "promote")
          => UNCHANGED <<boardState, turn, capturedPieces, gameStatus, promotionData>>
       /\ lastEvent' = "click:move" => ~PawnOnBackLayer(boardState')]_vars

\* C5 witness: a White pawn's promotion is pending and the pawn is still on
\* its origin cell on layer 6.
C5_Witness ==
    /\ lastEvent = "click:pending"
    /\ promotionData # NULL
    /\ promotionData.piece.color = "white"
    /\ promotionData.piece.z = SIZE - 2
    /\ promotionData.z = SIZE - 1
    /\ boardState[CellOf(promotionData.piece)] = promotionData.piece
    /\ turn = "white"

\* C6: while a promotion is pending every square click is rejected: the
\* selection, the valid-move list, the board, the turn and every other part
\* of the game state are unchanged, and only handlePromotion ends the pause.
C6_PendingRejectsClicks ==
    [][promotionData # NULL
       => \/ lastEvent' = "promote"
          \/ lastEvent' = "click:ignored" /\ UNCHANGED appState]_vars

\* C6 witness: a click was rejected while a promotion is pending.
C6_Witness ==
    /\ promotionData # NULL
    /\ lastEvent = "click:ignored"
    /\ selectedPiece = promotionData.piece
    /\ validMoves # {}

\* The captured lists after the step: `taken` joined the list of its color.
CapturedRecorded(taken) ==
    LET color == taken.color
        other == Opponent(color)
    IN /\ Len(capturedPieces'[color]) = Len(capturedPieces[color]) + 1
       /\ \E i \in 1..Len(capturedPieces'[color]) : capturedPieces'[color][i] = taken
       /\ \A i \in 1..Len(capturedPieces[color]) :
             \E j \in 1..Len(capturedPieces'[color]) :
                 capturedPieces'[color][j] = capturedPieces[color][i]
       /\ capturedPieces'[other] = capturedPieces[other]

\* C7: handlePromotion with a promotion pending for pawn p and destination d
\* empties p's origin, puts on d a Queen, Rook, Bishop or Knight of p's
\* color with position d and hasMoved, removes and records an enemy piece
\* that stood on d, flips the side to move and clears the pending promotion.
C7_PromotionSecondPhase ==
    [][lastEvent' = "promote"
       => LET p == promotionData.piece
              d == <<promotionData.x, promotionData.y, promotionData.z>>
          IN /\ promotionData # NULL
             /\ boardState'[CellOf(p)] = NULL
             /\ boardState'[d] # NULL
             /\ boardState'[d].type \in {"Q", "R", "B", "N"}
             /\ boardState'[d] = MkPiece(boardState'[d].type, p.color, d[1], d[2], d[3], TRUE)
             /\ \A c \in Cells \ {CellOf(p), d} : boardState'[c] = boardState[c]
             /\ IF boardState[d] # NULL
                THEN /\ boardState[d].color = Opponent(p.color)
                     /\ CapturedRecorded(boardState[d])
                ELSE capturedPieces' = capturedPieces
             /\ turn = p.color
             /\ turn' = Opponent(p.color)
             /\ promotionData' = NULL]_vars

\* C7 witness: a White pawn has promoted on (3,3,7), taking the Black queen.
C7_Witness ==
    /\ lastEvent = "promote"
    /\ boardState[<<3, 3, 7>>] # NULL
    /\ boardState[<<3, 3, 7>>].color = "white"
    /\ boardState[<<3, 3, 7>>].type = "N"
    /\ Len(capturedPieces.black) > 0
    /\ promotionData = NULL

\* C8: a committed move that takes the enemy king changes the game status
\* from 'active' to 'WHITE WINS!' when White moved and 'BLACK WINS!' when
\* Black moved; any other committed move leaves the game status unchanged.
C8_KingCaptureWins ==
    [][Committed(lastEvent')
       => IF KingCaptureStep
          THEN /\ gameStatus = "active"
               /\ gameStatus' = IF Mover.color = "white"
                                THEN "WHITE WINS!" ELSE "BLACK WINS!"
          ELSE gameStatus' = gameStatus]_vars

\* C8 witness: Black has taken the White king with a move.
C8_Witness ==
    /\ gameStatus = "BLACK WINS!"
    /\ lastEvent = "click:move"
    /\ ~HasKing(boardState, "white")
    /\ HasKing(boardState, "black")

\* C9 (as claimed): a move that takes the enemy king leaves the side to move
\* as it was before the move.
C9_KingCaptureKeepsTurn ==
    [][KingCaptureStep => turn' = turn]_vars

\* C9 (amended): a move that takes the enemy king flips the side to move
\* like every other committed move: afterwards it is the mover's opponent.
C9_KingCaptureFlipsTurn ==
    [][KingCaptureStep => turn = Mover.color /\ turn' = Opponent(Mover.color)]_vars

\* C9 witness: White has taken the Black king and Black is the side to move.
C9_Witness ==
    /\ gameStatus = "WHITE WINS!"
    /\ ~HasKing(boardState, "black")
    /\ Committed(lastEvent)
    /\ turn = "black"

\* C10: once the game status differs from 'active', no click and no
\* promotion choice changes the board, the side to move, the captured
\* lists, the selection or the game status.
C10_GameOverTerminal ==
    [][gameStatus # "active" => UNCHANGED appState]_vars

\* C10 witness: a click was ignored after the game has ended.
C10_Witness ==
    /\ gameStatus # "active"
    /\ lastEvent = "click:ignored"
    /\ promotionData = NULL

-----------------------------------------------------------------------------
(* Turn order, rejected requests and board consistency in play (PlaySpec). *)

\* C11: the side to move flips on every committed move (normal move,
\* capture, castle, completed promotion), made by the side to move, and on
\* no other step (selection, deselection, rejected click, entering the
\* promotion pause); so the n-th committed move is White's for odd n and
\* Black's for even n.
C11_TurnAlternates ==
    /\ [](turn = IF moveCount % 2 = 0 THEN "white" ELSE "black")
    /\ [][IF boardState' # boardState
          THEN /\ Committed(lastEvent')
               /\ moveCount' = moveCount + 1
               /\ Mover.color = turn
               /\ turn' = Opponent(turn)
          ELSE /\ ~Committed(lastEvent')
               /\ moveCount' = moveCount
               /\ turn' = turn]_vars

\* C11 witness: White has castled kingside with its fourth move, the
\* seventh of the game, and it is Black's turn.
C11_Witness ==
    /\ moveCount = 7
    /\ turn = "black"
    /\ lastEvent = "click:move"
    /\ boardState[<<6, 3, 0>>] # NULL /\ boardState[<<6, 3, 0>>].type = "K"
    /\ boardState[<<5, 3, 0>>] # NULL /\ boardState[<<5, 3, 0>>].type = "R"
    /\ boardState[<<7, 3, 0>>] = NULL

\* The step is move m of the selected piece: recorded as pending, or made.
StepIsMove(m) ==
    IF promotionData' # NULL
    THEN /\ promotionData' = [piece |-> selectedPiece, x |-> m.x, y |-> m.y, z |-> m.z]
         /\ UNCHANGED <<boardState, turn, capturedPieces, gameStatus>>
    ELSE /\ boardState'[CellOf(selectedPiece)] = NULL
         /\ boardState'[MoveCell(m)] =
                [selectedPiece EXCEPT !.x = m.x, !.y = m.y, !.z = m.z, !.hasMoved = TRUE]

\* C12: with a piece selected, a click on a cell that is not the destination
\* of a move in the list generated for that piece leaves the board, the side
\* to move, the captured lists, the game status and the pending promotion
\* unchanged: a click that changes any of them is a move of that list.
C12_IllegalRequestRejected ==
    [][(selectedPiece # NULL /\ promotionData = NULL /\ gameStatus = "active")
       => /\ validMoves = calculateValidMoves(selectedPiece, boardState)
          /\ \/ UNCHANGED <<boardState, turn, capturedPieces, gameStatus, promotionData>>
             \/ \E m \in validMoves : StepIsMove(m)
          /\ lastEvent' = "click:rejected"
             => UNCHANGED <<boardState, turn, capturedPieces, gameStatus, promotionData>>]_vars

\* C12 witness: during the game a click on a cell outside the selected
\* piece's move list was rejected and cleared the selection.
C12_Witness ==
    /\ lastEvent = "click:rejected"
    /\ selectedPiece = NULL
    /\ moveCount > 2
    /\ gameStatus = "active"

PiecesOnBoard == Cardinality({c \in Cells : boardState[c] # NULL})

\* C13: in every state reached from the initial layout every piece stored
\* in a cell carries that cell as its position, so no piece record is in two
\* cells, and the pieces on the board and in the captured lists together
\* are as many as at the start (none is duplicated or lost), also after a
\* castle and after a promotion.
C13_BoardPositionConsistent ==
    /\ \A c \in Cells : boardState[c] # NULL => CellOf(boardState[c]) = c
    /\ \A c, e \in PlayCells :
          (boardState[c] # NULL /\ boardState[c] = boardState[e]) => c = e
    /\ PiecesOnBoard + Len(capturedPieces.white) + Len(capturedPieces.black)
           = 4 * SIZE * SIZE

\* C13 witness: White has castled kingside; king and rook carry their new
\* cells and the White queen stands in front of the rook.
C13_Witness ==
    /\ boardState[<<6, 3, 0>>] = MkPiece("K", "white", 6, 3, 0, TRUE)
    /\ boardState[<<5, 3, 0>>] = MkPiece("R", "white", 5, 3, 0, TRUE)
    /\ boardState[<<5, 3, 1>>] = MkPiece("Q", "white", 5, 3, 1, TRUE)
    /\ boardState[<<4, 3, 0>>] = NULL

\* C14: every record a committed move writes (the relocated piece, the rook
\* of a castle, the piece made by a promotion) has hasMoved true and every
\* other record is left as it was, so the flag never returns to false; a
\* piece with hasMoved false is the piece the initial layout put on its cell.
C14_HasMovedMonotoneExact ==
    /\ [](\A c \in Cells :
             (boardState[c] # NULL /\ ~boardState[c].hasMoved)
             => boardState[c] = initializeBoardState[c])
    /\ [][boardState' # boardState
          => \A c \in Cells :
                boardState'[c] # boardState[c]
                => (boardState'[c] = NULL \/ boardState'[c].hasMoved)]_vars

\* C14 witness: the Black knight of (1,3,7) has left and come back: it
\* stands on its initial cell with hasMoved true.
C14_Witness ==
    /\ boardState[<<1, 3, 7>>] = MkPiece("N", "black", 1, 3, 7, TRUE)
    /\ initializeBoardState[<<1, 3, 7>>] = MkPiece("N", "black", 1, 3, 7, FALSE)

-----------------------------------------------------------------------------
(* Castle generation (CastleGenSpec).                                      *)

\* The preconditions of a castle of king k towards the rook of `castle`,
\* with `safe` the cells that must not be attacked by the opponent.
CastleAllowed(board, k, castle, safe) ==
    LET rook  == board[<<IF castle = "king" THEN 7 ELSE 0, k.y, k.z>>]
        empty == IF castle = "king" THEN {5, 6} ELSE {1, 2, 3}
    IN /\ k.type = "K"
       /\ ~k.hasMoved
       /\ ~isKingInCheck(k.color, board)
       /\ k.y = 3
       /\ k.z = (IF k.color = "white" THEN 0 ELSE SIZE - 1)
       /\ rook # NULL /\ rook.type = "R" /\ rook.color = k.color /\ ~rook.hasMoved
       /\ \A x \in empty : board[<<x, k.y, k.z>>] = NULL
       /\ \A x \in safe : ~isSquareAttacked(x, k.y, k.z, Opponent(k.color), board)

CastleTarget(k, castle) ==
    MkMove(IF castle = "king" THEN k.x + 2 ELSE k.x - 2, k.y, k.z, FALSE, castle)

\* The cells tested for attack according to the specification text.
SafeCells(castle) == IF castle = "king" THEN {5, 6} ELSE {2, 3}

\* The cell the king passes over on its way.
TransitCells(castle) == IF castle = "king" THEN {5} ELSE {3}

\* C15: a move tagged castle is generated only for a king, and the castle
\* towards a rook is in the king's list exactly when the king has not
\* moved, is not in check and stands on its home row, the corner holds an
\* unmoved rook of its color, the cells between are empty and x=5, x=6
\* (kingside) or x=2, x=3 (queenside) are not attacked; the move goes to
\* x+2 or x-2.
C15_CastlePreconditions ==
    lastEvent = "generate"
    => \A c \in DOMAIN generated :
          LET k == boardState[c]
          IN /\ \A m \in generated[c] :
                   m.castle # "none" => (k.type = "K" /\ m = CastleTarget(k, m.castle))
             /\ k.type = "K"
                => \A castle \in {"king", "queen"} :
                      CastleTarget(k, castle) \in generated[c]
                      <=> CastleAllowed(boardState, k, castle, SafeCells(castle))

\* C15 witness: the White king may castle kingside, but not queenside,
\* where only the attack of a Black rook on (3,3,0) stands in the way.
C15_Witness ==
    /\ lastEvent = "generate"
    /\ LET k == boardState[<<4, 3, 0>>]
       IN /\ CastleTarget(k, "king") \in generated[<<4, 3, 0>>]
          /\ CastleTarget(k, "queen") \notin generated[<<4, 3, 0>>]
          /\ CastleAllowed(boardState, k, "queen", {2})
          /\ isSquareAttacked(3, 3, 0, "black", boardState)

\* C16 (as claimed): only the cell the king passes over is tested for
\* attack, never its destination: a castle whose other preconditions hold
\* is generated whether or not the destination cell is attacked.
C16_DestinationUnchecked ==
    lastEvent = "generate"
    => \A c \in DOMAIN generated :
          LET k == boardState[c]
          IN k.type = "K"
             => \A castle \in {"king", "queen"} :
                   CastleAllowed(boardState, k, castle, TransitCells(castle))
                   => CastleTarget(k, castle) \in generated[c]

\* C16 (amended): the cells tested for attack include the destination of
\* an unmoved king: no generated castle move lands on a cell that the
\* opponent attacks at generation time.
C16_DestinationSafe ==
    lastEvent = "generate"
    => \A c \in DOMAIN generated :
          \A m \in generated[c] :
              m.castle # "none"
              => ~isSquareAttacked(m.x, m.y, m.z, Opponent(boardState[c].color), boardState)

\* C16 witness: a Black rook attacks (6,3,0) and nothing else stands in the
\* way of the White kingside castle, which is not generated, while the
\* queenside castle is.
C16_Witness ==
    /\ lastEvent = "generate"
    /\ LET k == boardState[<<4, 3, 0>>]
       IN /\ CastleAllowed(boardState, k, "king", {5})
          /\ isSquareAttacked(6, 3, 0, "black", boardState)
          /\ CastleTarget(k, "king") \notin generated[<<4, 3, 0>>]
          /\ CastleTarget(k, "queen") \in generated[<<4, 3, 0>>]

-----------------------------------------------------------------------------
(* The move sets against their reference (GenSpec).                        *)

InCube(c) == \A i \in 1..3 : c[i] \in Coords

Forward(color) == IF color = "white" THEN 1 ELSE -1

PawnLayer(color) == IF color = "white" THEN 1 ELSE SIZE - 2

\* The pawn moves of the reference: one step, two steps, captures.
RefPawnMoves(p, board) ==
    LET f    == Forward(p.color)
        one  == <<p.x, p.y, p.z + f>>
        two  == <<p.x, p.y, p.z + 2 * f>>
        free(c) == InCube(c) /\ board[c] = NULL
    IN (IF free(one) THEN {MkMove(one[1], one[2], one[3], FALSE, "none")} ELSE {})
       \cup
       (IF p.z = PawnLayer(p.color) /\ free(one) /\ free(two)
        THEN {MkMove(two[1], two[2], two[3], FALSE, "none")} ELSE {})
       \cup
       {MkMove(c[1], c[2], c[3], TRUE, "none") :
           c \in {e \in Cells : /\ e[3] = p.z + f
                                /\ Abs(e[1] - p.x) <= 1 /\ Abs(e[2] - p.y) <= 1
                                /\ <<e[1], e[2]>> # <<p.x, p.y>>
                                /\ board[e] # NULL /\ board[e].color # p.color}}

\* C18: a pawn's moves are exactly the step forward onto an empty cell, the
\* two-step from its starting layer over an empty cell onto an empty cell,
\* both non-captures, and the captures of the enemy pieces on the 8 cells
\* around the cell ahead; nothing sideways, backward or straight-ahead
\* capturing.
C18_PawnMoveSet ==
    lastEvent \in {"generate", "probe"}
    => \A c \in DOMAIN generated :
          boardState[c].type = "P" => generated[c] = RefPawnMoves(boardState[c], boardState)

\* C18 witness: the Black pawn on (5,3,6) may step to (5,3,5) but not jump
\* to (5,3,4), which a White pawn holds; that pawn, off its starting layer,
\* takes the Black pawn on (5,4,5) and steps ahead one cell only.
C18_Witness ==
    /\ lastEvent = "generate"
    /\ boardState[<<5, 3, 6>>] = MkPiece("P", "black", 5, 3, 6, FALSE)
    /\ boardState[<<5, 3, 4>>] = MkPiece("P", "white", 5, 3, 4, TRUE)
    /\ generated[<<5, 3, 6>>] = {MkMove(5, 3, 5, FALSE, "none")}
    /\ generated[<<5, 3, 4>>] = {MkMove(5, 3, 5, FALSE, "none"), MkMove(5, 4, 5, TRUE, "none")}

Offsets == {d \in (-1..1) \X (-1..1) \X (-1..1) : d # <<0, 0, 0>>}

Norm1(d) == Abs(d[1]) + Abs(d[2]) + Abs(d[3])

\* The directions of the reference.
RefDirections(type) ==
    IF type = "R" THEN {d \in Offsets : Norm1(d) = 1}
    ELSE IF type = "B" THEN {d \in Offsets : Norm1(d) > 1}
    ELSE Offsets

RefReach(type) == IF type = "K" THEN 1 ELSE SIZE - 1

At(c, d, k) == <<c[1] + d[1] * k, c[2] + d[2] * k, c[3] + d[3] * k>>

\* The moves of the reference along direction d: the maximal run of empty
\* cells, then the first occupied cell if an enemy piece holds it.
RefRayMoves(p, d, board) ==
    LET c == CellOf(p)
        reached == {k \in 1..RefReach(p.type) :
                       /\ InCube(At(c, d, k))
                       /\ \A j \in 1..(k - 1) : board[At(c, d, j)] = NULL
                       /\ (board[At(c, d, k)] = NULL \/ board[At(c, d, k)].color # p.color)}
    IN {MkMove(At(c, d, k)[1], At(c, d, k)[2], At(c, d, k)[3],
               board[At(c, d, k)] # NULL, "none") : k \in reached}

RefSlidingMoves(p, board) ==
    UNION {RefRayMoves(p, d, board) : d \in RefDirections(p.type)}

\* C19: a Rook uses the 6 offsets with |dx|+|dy|+|dz| = 1, a Bishop the 20
\* with |dx|+|dy|+|dz| > 1, Queen and King all 26, no direction twice; on
\* each direction the moves are the run of empty cells and then the first
\* occupied cell if it is the enemy's; a King goes one cell, the others up
\* to 7.
C19_SlidingMoveSet ==
    /\ \A type \in {"R", "B", "Q", "K"} :
          /\ rayDirections(type) = RefDirections(type)
          /\ Cardinality(rayDirections(type))
                 = (IF type = "R" THEN 6 ELSE IF type = "B" THEN 20 ELSE 26)
    /\ {d \in all3DDirections : isOrthogonal(d)} \cap {d \in all3DDirections : isDiagonal(d)} = {}
    /\ lastEvent \in {"generate", "probe"}
       => \A c \in DOMAIN generated :
             boardState[c].type \in {"R", "B", "Q", "K"}
             => {m \in generated[c] : m.castle = "none"}
                    = RefSlidingMoves(boardState[c], boardState)

\* C19 witness: the White bishop on (3,3,4) goes one cell along (1,1,1) and
\* takes the Black pawn on (5,5,6) behind it, but has no move straight up;
\* the White king's only move is to (5,3,1), which its pawn has left.
C19_Witness ==
    /\ lastEvent = "generate"
    /\ boardState[<<3, 3, 4>>] = MkPiece("B", "white", 3, 3, 4, TRUE)
    /\ MkMove(4, 4, 5, FALSE, "none") \in generated[<<3, 3, 4>>]
    /\ MkMove(5, 5, 6, TRUE, "none") \in generated[<<3, 3, 4>>]
    /\ MkMove(3, 3, 5, FALSE, "none") \notin generated[<<3, 3, 4>>]
    /\ boardState[<<5, 3, 1>>] = NULL
    /\ generated[<<4, 3, 0>>] = {MkMove(5, 3, 1, FALSE, "none")}

-----------------------------------------------------------------------------
(* The Knight's offsets (LoneSpec).                                        *)

\* All placements of (+-2, +-1, 0) over the three axes.
RefKnightOffsets ==
    {d \in (-2..2) \X (-2..2) \X (-2..2) :
        {Abs(d[1]), Abs(d[2]), Abs(d[3])} = {0, 1, 2}}

Negated(d) == <<-d[1], -d[2], -d[3]>>

\* The image of cell e under the point reflection through cell c.
Reflected(c, e) == <<2 * c[1] - e[1], 2 * c[2] - e[2], 2 * c[3] - e[3]>>

Destinations(moves) == {MoveCell(m) : m \in {n \in moves : n.castle = "none"}}

\* C20: move generation and threat detection use the same 24 Knight
\* offsets, all placements of (+-2, +-1, 0), closed under negation; alone on
\* the board, a Knight's or King's destinations are mapped onto themselves
\* by the point reflection through its cell, as far as the images lie on
\* the board.
C20_KnightOffsetsSymmetric ==
    /\ permutations = knightMoves
    /\ Cardinality(permutations) = 24
    /\ permutations = RefKnightOffsets
    /\ \A d \in permutations : Negated(d) \in permutations
    /\ lastEvent = "generate"
       => \A c \in DOMAIN generated :
             /\ \A e \in Destinations(generated[c]) :
                   InCube(Reflected(c, e)) => Reflected(c, e) \in Destinations(generated[c])
             /\ boardState[c].type = "N"
                => Destinations(generated[c])
                       = {At(c, d, 1) : d \in RefKnightOffsets} \cap Cells

\* C20 witness: a Knight alone in the corner (0,0,0) has 6 destinations,
\* none of which has its mirror image on the board.
C20_Witness ==
    /\ lastEvent = "generate"
    /\ boardState[<<0, 0, 0>>] # NULL
    /\ boardState[<<0, 0, 0>>].type = "N"
    /\ Cardinality(generated[<<0, 0, 0>>]) = 6
    /\ \A e \in Destinations(generated[<<0, 0, 0>>]) : ~InCube(Reflected(<<0, 0, 0>>, e))

-----------------------------------------------------------------------------
(* Pseudo-legal moves in play (Spec).                                      *)

RefKnightMoves(p, board) ==
    {MkMove(e[1], e[2], e[3], board[e] # NULL, "none") :
        e \in {At(CellOf(p), d, 1) : d \in RefKnightOffsets}
              \cap {f \in Cells : board[f] = NULL \/ board[f].color # p.color}}

\* Every move the piece may make by the rules of movement alone.
RefMoves(p, board) ==
    IF p.type = "P" THEN RefPawnMoves(p, board)
    ELSE IF p.type = "N" THEN RefKnightMoves(p, board)
    ELSE RefSlidingMoves(p, board)

-----------------------------------------------------------------------------
(* The capture flag (GenSpec).                                             *)

\* C21: for every generated move of every piece kind, the capture flag is
\* true exactly when the destination cell is occupied, and an occupied
\* destination holds an enemy piece; a castle move has capture false and an
\* empty destination.
C21_CaptureFlagExact ==
    lastEvent \in {"generate", "probe"}
    => \A c \in DOMAIN generated : \A m \in generated[c] :
          /\ m.capture <=> Occupied(boardState, MoveCell(m))
          /\ Occupied(boardState, MoveCell(m))
             => boardState[MoveCell(m)].color = Opponent(boardState[c].color)
          /\ m.castle # "none" => (~m.capture /\ ~Occupied(boardState, MoveCell(m)))

\* C21 witness: the Black knight on (5,3,2) has a capture (the White king)
\* and a move to an empty cell, the White rook of (7,3,0) takes the Black
\* rook at the far end of its column, and the Black king may castle to
\* either side.
C21_Witness ==
    /\ lastEvent = "generate"
    /\ boardState[<<5, 3, 2>>] = MkPiece("N", "black", 5, 3, 2, TRUE)
    /\ MkMove(4, 3, 0, TRUE, "none") \in generated[<<5, 3, 2>>]
    /\ MkMove(5, 4, 4, FALSE, "none") \in generated[<<5, 3, 2>>]
    /\ MkMove(7, 3, 7, TRUE, "none") \in generated[<<7, 3, 0>>]
    /\ MkMove(6, 3, 7, FALSE, "king") \in generated[<<4, 3, 7>>]
    /\ MkMove(2, 3, 7, FALSE, "queen") \in generated[<<4, 3, 7>>]

-----------------------------------------------------------------------------
(* A move and its inverse displacement (RoundTripSpec).                    *)

\* C22: applying a move that is no castle, no promotion and no capture, and
\* then moving the same piece back to the cell it came from, gives the
\* prior board in every cell, except that the moved piece has hasMoved true.
C22_RoundTrip ==
    [][lastEvent' = "roundtrip"
       => \A c \in DOMAIN generated' : \A move \in generated'[c] :
             (move.castle = "none" /\ ~move.capture)
             => boardState' = [boardState EXCEPT ![c] = [@ EXCEPT !.hasMoved = TRUE]]]_vars

\* C22 witness: the White pawn of (5,3,1) has made its two-step to (5,3,3)
\* and gone back: it stands on its cell with hasMoved true, the cells ahead
\* are empty, and nothing was captured.
C22_Witness ==
    /\ lastEvent = "roundtrip"
    /\ generated = [e \in {<<5, 3, 1>>} |-> {MkMove(5, 3, 3, FALSE, "none")}]
    /\ boardState[<<5, 3, 1>>] = MkPiece("P", "white", 5, 3, 1, TRUE)
    /\ boardState[<<5, 3, 2>>] = NULL
    /\ boardState[<<5, 3, 3>>] = NULL
    /\ capturedPieces = [white |-> <<>>, black |-> <<>>]

-----------------------------------------------------------------------------
(* The initial layout (Spec).                                              *)

KingCells(board, color) ==
    {c \in Cells : board[c] # NULL /\ board[c].type = "K" /\ board[c].color = color}

\* C23: the game starts from the board of initializeBoardState, which has
\* White major pieces on layer 0 and Black major pieces on layer 7 in the
\* same 8x8 arrangement, 64 White pawns on layer 1, 64 Black pawns on layer
\* 6 and nothing on layers 2..5; one king per color, on (4,3,0) and
\* (4,3,7), with rooks of its color on x=0 and x=7 of its row; every piece
\* carries its cell as position and has not moved.
C23_InitialLayout ==
    lastEvent = "init"
    => /\ boardState = initializeBoardState
       /\ \A c \in Cells :
             LET piece == boardState[c]
             IN /\ c[3] \in 2..5 <=> piece = NULL
                /\ piece # NULL
                   => /\ CellOf(piece) = c
                      /\ ~piece.hasMoved
                      /\ piece.color = (IF c[3] \in {0, 1} THEN "white" ELSE "black")
                      /\ c[3] \in {1, 6} <=> piece.type = "P"
                      /\ piece.type = boardState[<<c[1], c[2], 7 - c[3]>>].type
       /\ \A color \in Colors :
             /\ Cardinality({c \in Cells : /\ boardState[c] # NULL
                                           /\ boardState[c].type = "P"
                                           /\ boardState[c].color = color}) = 64
             /\ KingCells(boardState, color) = {<<4, 3, HomeZ(color)>>}
             /\ \A x \in {0, 7} :
                   /\ boardState[<<x, 3, HomeZ(color)>>].type = "R"
                   /\ boardState[<<x, 3, HomeZ(color)>>].color = color

\* C23 witness: the session is in its first state, White to move, with the
\* unmoved White king on (4,3,0), a queen on either side of it, and an
\* unmoved Black rook in the corner (0,0,7).
C23_Witness ==
    /\ lastEvent = "init"
    /\ moveCount = 0
    /\ turn = "white"
    /\ boardState[<<4, 3, 0>>] = MkPiece("K", "white", 4, 3, 0, FALSE)
    /\ boardState[<<3, 3, 0>>].type = "Q"
    /\ boardState[<<5, 3, 0>>].type = "Q"
    /\ boardState[<<0, 0, 7>>] = MkPiece("R", "black", 0, 0, 7, FALSE)

-----------------------------------------------------------------------------
(* Capture bookkeeping (PlaySpec).                                         *)

\* How often record p occurs in a list.
Count(list, p) == Cardinality({i \in 1..Len(list) : list[i] = p})

Entries(list) == {list[i] : i \in 1..Len(list)}

\* The step adds record q once to the captured list of q's color and
\* changes no other entry of either list.
AddedOnce(q) ==
    /\ \A p \in Entries(capturedPieces[q.color]) \cup Entries(capturedPieces'[q.color]) \cup {q} :
          Count(capturedPieces'[q.color], p)
              = Count(capturedPieces[q.color], p) + (IF p = q THEN 1 ELSE 0)
    /\ capturedPieces'[Opponent(q.color)] = capturedPieces[Opponent(q.color)]

\* The bookkeeping of a committed move of `mover` to cell dest.
CaptureBooked(mover, dest) ==
    LET q == boardState[dest]
    IN IF q # NULL
       THEN /\ q.color = Opponent(mover.color)
            /\ \A c \in Cells : boardState'[c] # q
            /\ AddedOnce(q)
       ELSE capturedPieces' = capturedPieces

-----------------------------------------------------------------------------
(* Only the side to move moves (Spec).                                     *)

\* The step relocates `mover` to cell dest: its cell is emptied and dest
\* holds a piece of its color.
Relocated(mover, dest) ==
    /\ boardState[CellOf(mover)] = mover
    /\ boardState'[CellOf(mover)] = NULL
    /\ boardState'[dest] # NULL
    /\ boardState'[dest].color = mover.color
    /\ CellOf(boardState'[dest]) = dest

\* C25: a selected piece is the piece the board holds on the selected
\* piece's coordinates and is of the color to move; every committed move,
\* a completed promotion included, relocates a piece of the color that was
\* to move to the destination of a move in calculateValidMoves of that
\* piece on the board before the move.
C25_OnlySideToMoveMoves ==
    /\ [](selectedPiece # NULL
          => /\ boardState[CellOf(selectedPiece)] = selectedPiece
             /\ selectedPiece.color = turn)
    /\ [][/\ lastEvent' = "click:move"
             => /\ selectedPiece # NULL
                /\ selectedPiece.color = turn
                /\ \E m \in calculateValidMoves(selectedPiece, boardState) :
                      Relocated(selectedPiece, MoveCell(m))
          /\ lastEvent' = "promote"
             => /\ promotionData # NULL
                /\ promotionData.piece.color = turn
                /\ \E m \in calculateValidMoves(promotionData.piece, boardState) :
                      /\ MoveCell(m) = <<promotionData.x, promotionData.y, promotionData.z>>
                      /\ Relocated(promotionData.piece, MoveCell(m))
          /\ boardState' # boardState => Committed(lastEvent')]_vars

\* C25 witness: Black, to move, has selected its knight on (4,3,4), which
\* came from (1,3,7), while White has a piece on (2,3,3).
C25_Witness ==
    /\ turn = "black"
    /\ lastEvent = "click:select"
    /\ selectedPiece = MkPiece("N", "black", 4, 3, 4, TRUE)
    /\ boardState[<<4, 3, 4>>] = selectedPiece
    /\ boardState[<<1, 3, 7>>] = NULL
    /\ boardState[<<2, 3, 3>>] # NULL
    /\ boardState[<<2, 3, 3>>].color = "white"
    /\ validMoves = calculateValidMoves(selectedPiece, boardState)

-----------------------------------------------------------------------------
(* Pawns in play (Spec).                                                   *)

PawnCells(board) == {c \in Cells : board[c] # NULL /\ board[c].type = "P"}

\* C26: in every state of play a pawn stands on the starting pawn layer of
\* its color (z=1 White, z=6 Black) exactly when its hasMoved is false, so
\* the two-step move, which is generated by layer, is never generated for
\* a pawn that has moved.
C26_DoubleStepLayerGate ==
    \A c \in PawnCells(boardState) :
        LET pawn == boardState[c]
        IN /\ c[3] = PawnLayer(pawn.color) <=> ~pawn.hasMoved
           /\ pawn.hasMoved
              => \A m \in calculateValidMoves(pawn, boardState) : Abs(m.z - c[3]) = 1

\* C26 witness: the White pawn of (2,3,1) has stepped to (2,3,2); the two
\* cells ahead of it are empty and its only move is the step to (2,3,3).
C26_Witness ==
    /\ boardState[<<2, 3, 2>>] = MkPiece("P", "white", 2, 3, 2, TRUE)
    /\ boardState[<<2, 3, 3>>] = NULL
    /\ boardState[<<2, 3, 4>>] = NULL
    /\ selectedPiece = boardState[<<2, 3, 2>>]
    /\ validMoves = {MkMove(2, 3, 3, FALSE, "none")}

\* C27: in every state of play every pawn, White or Black, stands on a
\* layer 1..6, never on layer 0 or 7: reaching the far layer replaces it
\* through promotion; so the cell ahead of a pawn is always inside the cube.
C27_NoPawnOnBackLayer ==
    \A c \in PawnCells(boardState) :
        /\ c[3] \in 1..(SIZE - 2)
        /\ isWithinBounds(c[1], c[2], c[3] + Forward(boardState[c].color))

\* C27 witness: the White pawn that stood on (3,2,6) has promoted to a
\* queen on (3,3,7); it is Black's turn and the game goes on.
C27_Witness ==
    /\ lastEvent = "promote"
    /\ boardState[<<3, 3, 7>>] = MkPiece("Q", "white", 3, 3, 7, TRUE)
    /\ boardState[<<3, 2, 6>>] = NULL
    /\ PawnCells(boardState) \cap {c \in Cells : c[3] = SIZE - 1} = {}
    /\ gameStatus = "active"

-----------------------------------------------------------------------------
(* Castle generation in play (PlaySpec).                                   *)

\* The rook endgame with the White king, unmoved, one column off its cell.
ShiftedKingBoard ==
    [[EndgameBoard EXCEPT ![<<4, 3, 0>>] = NULL]
        EXCEPT ![<<3, 3, 0>>] = MkPiece("K", "white", 3, 3, 0, FALSE)]

-----------------------------------------------------------------------------
(* Kings and game status (Spec).                                           *)

\* C29: in every state each color has at most one king on the board; the
\* game status is 'active' exactly when both kings are on the board, and
\* it names a color as winner only when the other color's king has been
\* captured; so while the game is active findKing finds a king for either
\* color and isKingInCheck does not take its no-king branch.
C29_KingsAndStatus ==
    /\ \A color \in Colors : Cardinality(KingCells(boardState, color)) <= 1
    /\ gameStatus = "active" <=> \A color \in Colors : HasKing(boardState, color)
    /\ \A color \in Colors :
          gameStatus = WinStatus(color)
          => /\ ~HasKing(boardState, Opponent(color))
             /\ HasKing(boardState, color)
             /\ \E p \in Entries(capturedPieces[Opponent(color)]) : p.type = "K"
    /\ gameStatus \in {"active", WinStatus("white"), WinStatus("black")}
    /\ gameStatus = "active" => \A color \in Colors : findKing(color, boardState) # NULL

\* C29 witness: White has won: the Black king is in the list of captured
\* Black pieces, no Black king is on the board and the White king stands
\* on its cell.
C29_Witness ==
    /\ gameStatus = WinStatus("white")
    /\ KingCells(boardState, "black") = {}
    /\ KingCells(boardState, "white") = {<<4, 3, 0>>}
    /\ capturedPieces.black[1].type = "K"
    /\ findKing("black", boardState) = NULL

-----------------------------------------------------------------------------
(* Piece conservation (PlaySpec).                                          *)

PiecesOf(board, color) ==
    Cardinality({c \in Cells : board[c] # NULL /\ board[c].color = color})

\* C30: in every state, for each color the pieces of that color on the
\* board and the entries of its captured list are 128 together, every
\* entry of capturedPieces[C] has color C, and no step increases the number
\* of pieces on the board (a promotion replaces one pawn by one piece, a
\* castle moves two pieces).
C30_PieceConservation ==
    /\ [](\A color \in Colors :
             /\ PiecesOf(boardState, color) + Len(capturedPieces[color]) = 2 * SIZE * SIZE
             /\ \A p \in Entries(capturedPieces[color]) : p.color = color)
    /\ [][boardState' # boardState
          => /\ PiecesOnBoard' <= PiecesOnBoard
             /\ capturedPieces' = capturedPieces => PiecesOnBoard' = PiecesOnBoard]_vars

\* C30 witness: White has taken a Black pawn and Black has taken the White
\* king: 127 pieces of each color are on the board and one of each is in
\* its captured list.
C30_Witness ==
    /\ Len(capturedPieces.white) = 1
    /\ Len(capturedPieces.black) = 1
    /\ capturedPieces.white[1].type = "K"
    /\ capturedPieces.black[1].type = "P"
    /\ PiecesOf(boardState, "white") = 2 * SIZE * SIZE - 1
    /\ PiecesOf(boardState, "black") = 2 * SIZE * SIZE - 1

====
